---- MODULE Spec2Model ----
(***************************************************************************)
(* type_safe::strong_typedef and the strong_typedef_op capabilities.       *)
(*                                                                         *)
(* Four views of the library are modelled:                                 *)
(*   - SpecRun : wrapper instances over an unsigned Width-bit integer and  *)
(*               the operators the capabilities generate on them;          *)
(*   - SpecIter: wrapper instances over a pointer into a bounded array     *)
(*               with random_access_iterator attached;                     *)
(*   - SpecDecl / SpecCross: wrapper declarations (which capabilities are  *)
(*               attached) and the overload resolution of an operator      *)
(*               expression against the overloads the library generates;   *)
(*   - SpecAssert: a process calling detail::constexpr_assert.             *)
(***************************************************************************)
EXTENDS Integers, FiniteSets, Sequences, TLC

VARIABLES
    val,    \* SpecRun : Inst -> wrapper object [value_ |-> stored representation]
    res,    \* SpecRun : record of the last operation and what it returned
    it,     \* SpecIter: IterInst -> iterator wrapper object [value_ |-> pointer]
    ires,   \* SpecIter: record of the last iterator operation
    decl,   \* SpecDecl: wrapper type -> set of attached capabilities
    expr,   \* SpecDecl: record of the last operator expression compiled
    asrt    \* SpecAssert: the process calling detail::constexpr_assert

vars == <<val, res, it, ires, decl, expr, asrt>>

(***************************************************************************)
(* Bounds                                                                  *)
(***************************************************************************)
Width   == 2    \* bits of the unsigned representation
NumInst == 3    \* wrapper instances alive in SpecRun

Pow2(n) == IF n = 0 THEN 1 ELSE IF n = 1 THEN 2 ELSE IF n = 2 THEN 4
           ELSE IF n = 3 THEN 8 ELSE IF n = 4 THEN 16 ELSE 32
Modulus == Pow2(Width)
Repr    == 0 .. (Modulus - 1)
Inst    == 1 .. NumInst

(***************************************************************************)
(* The representation's own operators (unsigned Width-bit integer)         *)
(***************************************************************************)
Bit(a, k) == (a \div Pow2(k)) % 2

ReprBitwise(op, a, b) ==
    LET f(x, y) == CASE op = "|" -> IF x + y > 0 THEN 1 ELSE 0
                     [] op = "^" -> (x + y) % 2
                     [] op = "&" -> x * y
        bits(k) == f(Bit(a, k), Bit(b, k)) * Pow2(k)
    IN  bits(0) + bits(1) + bits(2) + bits(3) + bits(4)

\* a Op b on the representation; / and % by zero are undefined behaviour and
\* are handled by the actions, never evaluated here.
ReprBinary(op, a, b) ==
    CASE op = "+" -> (a + b) % Modulus
      [] op = "-" -> (a - b) % Modulus
      [] op = "*" -> (a * b) % Modulus
      [] op = "/" -> a \div b
      [] op = "%" -> a % b
      [] op \in {"|", "^", "&"} -> ReprBitwise(op, a, b)
      [] op = "<<" -> (a * Pow2(b)) % Modulus
      [] op = ">>" -> a \div Pow2(b)

ReprCompare(op, a, b) ==
    CASE op = "==" -> a = b
      [] op = "!=" -> a # b
      [] op = "<"  -> a < b
      [] op = "<=" -> a <= b
      [] op = ">"  -> a > b
      [] op = ">=" -> a >= b

ReprUnary(op, a) ==
    CASE op = "+" -> a
      [] op = "-" -> (0 - a) % Modulus
      [] op = "~" -> (Modulus - 1) - a

(***************************************************************************)
(* strong_typedef: construction, accessors, swap                           *)
(***************************************************************************)
\* a default constructor leaving value_ default-initialised: for a built-in
\* representation whatever the storage held, here all bits set
strong_typedef_default_Uninit == [value_ |-> Modulus - 1]

\* strong_typedef() : value_()
strong_typedef_default == [value_ |-> 0]

\* explicit strong_typedef(const T& value) : value_(value)
strong_typedef_copy(value) == [value_ |-> value]

\* the move constructor value-initialising instead of forwarding its argument
strong_typedef_move_Dropped(value) == [value_ |-> 0]

\* explicit strong_typedef(T&& value) : value_(static_cast<T&&>(value))
strong_typedef_move(value) == [value_ |-> value]

\* explicit operator T&() / operator const T&(): return value_
operator_T(self) == self.value_

\* get(strong_typedef&): static_cast<T&>(type)
get(type) == operator_T(type)

\* The value category of the expression naming a wrapper: W&, const W&,
\* W&& and const W&&.
WrapperCategories == {"mutable", "const", "movable", "const movable"}

\* the reference type of the matching category
ReferenceType(wcat) ==
    CASE wcat = "mutable"       -> "T&"
      [] wcat = "const"         -> "const T&"
      [] wcat = "movable"       -> "T&&"
      [] wcat = "const movable" -> "const T&&"

\* A reference is the object whose value_ it designates and its type; object
\* 0 is a temporary, type "ill-formed" an expression that does not compile.
NoReference == [obj |-> 0, type |-> "ill-formed"]

\* an accessor returning the representation by value: the reference binds to
\* a temporary copy
get_reference_ByValue(self, wcat) == [obj |-> 0, type |-> ReferenceType(wcat)]

\* get(strong_typedef&) / (const strong_typedef&) / (strong_typedef&&) /
\* (const strong_typedef&&), as the reference each overload returns
get_reference(self, wcat) == [obj |-> self, type |-> ReferenceType(wcat)]

\* static_cast<ReferenceType(wcat)>(wrapper) through the explicit conversion
\* operators. operator T&&() && and operator const T&&() const&& exist only
\* #if TYPE_SAFE_USE_REF_QUALIFIERS (refq); without them no conversion
\* operator yields an rvalue reference and the cast is ill-formed.
operator_T_reference(refq, self, wcat) ==
    IF wcat \in {"mutable", "const"} \/ refq
    THEN [obj |-> self, type |-> ReferenceType(wcat)]
    ELSE NoReference

\* detail::get_underlying<StrongTypedef>(type): get(type)
get_underlying(type) == get(type)

\* a swap without the temporary: a = b; b = a
swap_NoTemp(s, a, b) ==
    LET s1 == [s EXCEPT ![a] = [value_ |-> get(s[b])]]
    IN  [s1 EXCEPT ![b] = [value_ |-> get(s1[a])]]

\* std::swap on the two stored values, through references into the store s:
\* tmp = move(a); a = move(b); b = move(tmp)
swap(s, a, b) ==
    LET tmp == get(s[a])
        s1  == [s EXCEPT ![a] = [value_ |-> get(s[b])]]
    IN  [s1 EXCEPT ![b] = [value_ |-> tmp]]

(***************************************************************************)
(* Operators generated by the capabilities, on wrapper objects             *)
(***************************************************************************)
ArithOps   == {"+", "-", "*", "/", "%"}
BitOps     == {"|", "^", "&"}
ShiftOps   == {"<<", ">>"}
EqOps      == {"==", "!="}
RelOps     == {"<", "<=", ">", ">="}
UnaryOps   == {"+", "-", "~"}
Categories == {"lvalue", "rvalue"}

\* The value category in which detail::get_underlying hands the stored value
\* to the representation's operator: the (const StrongTypedef&) overload
\* returns a const lvalue, the (StrongTypedef&&) overload an rvalue.
get_underlying_category(argcat) ==
    IF argcat = "rvalue" THEN "rvalue" ELSE "const lvalue"

\* TYPE_SAFE_DETAIL_MAKE_OP, the four same-type overloads. lcat/rcat select
\* the overload; the left operand is always cast to an lvalue reference
\* (static_cast<const StrongTypedef&> or static_cast<StrongTypedef&>), the
\* right one to const StrongTypedef& or StrongTypedef&&.
MAKE_OP_lhs_cast(lcat) == "lvalue"
MAKE_OP_rhs_cast(rcat) == IF rcat = "rvalue" THEN "rvalue" ELSE "lvalue"

\* the overload returning its left operand without applying the operator
MAKE_OP_LhsOnly(op, lhs, lcat, rhs, rcat) ==
    [ result |-> strong_typedef_copy(get_underlying(lhs)),
      lpass  |-> get_underlying_category(MAKE_OP_lhs_cast(lcat)),
      rpass  |-> get_underlying_category(MAKE_OP_rhs_cast(rcat)) ]

MAKE_OP(op, lhs, lcat, rhs, rcat) ==
    [ result |-> strong_typedef_copy(
                     ReprBinary(op, get_underlying(lhs), get_underlying(rhs))),
      lpass  |-> get_underlying_category(MAKE_OP_lhs_cast(lcat)),
      rpass  |-> get_underlying_category(MAKE_OP_rhs_cast(rcat)) ]

\* TYPE_SAFE_DETAIL_MAKE_OP with Result = bool (equality_comparison,
\* relational_comparison)
MAKE_OP_bool(op, lhs, lcat, rhs, rcat) ==
    [ result |-> ReprCompare(op, get_underlying(lhs), get_underlying(rhs)),
      lpass  |-> get_underlying_category(MAKE_OP_lhs_cast(lcat)),
      rpass  |-> get_underlying_category(MAKE_OP_rhs_cast(rcat)) ]

\* TYPE_SAFE_DETAIL_MAKE_OP_MIXED: (Name<StrongTypedef, OtherArg>, Other) and
\* (Other, Name<StrongTypedef, OtherArg>); side says where the wrapper is.
MAKE_OP_MIXED(op, wrapper, other, side) ==
    IF side = "lhs"
    THEN strong_typedef_copy(ReprBinary(op, get(wrapper), other))
    ELSE strong_typedef_copy(ReprBinary(op, other, get(wrapper)))

\* the compound assignment acting on a value_ shared by all instances
MAKE_OP_COMPOUND_Shared(op, s, lhs, rhsval) ==
    [k \in DOMAIN s |-> [value_ |-> ReprBinary(op, get(s[lhs]), rhsval)]]

\* TYPE_SAFE_DETAIL_MAKE_OP_COMPOUND: static_cast<type&>(lhs) Op= rhs value;
\* return lhs. Acts on the store s; rhsval is the right operand's
\* representation, read before the assignment.
MAKE_OP_COMPOUND(op, s, lhs, rhsval) ==
    [s EXCEPT ![lhs] = [value_ |-> ReprBinary(op, get(s[lhs]), rhsval)]]

\* The four overloads of TYPE_SAFE_DETAIL_MAKE_OP_COMPOUND(Op=, Other), by
\* the value categories of the operands: parameter types, the expression the
\* body assigns to, the expression it reads and the return type.
MAKE_OP_COMPOUND_overload(lcat, rcat) ==
    [ lhs     |-> IF lcat = "rvalue" THEN "StrongTypedef&&" ELSE "StrongTypedef&",
      rhs     |-> IF rcat = "rvalue" THEN "Other&&" ELSE "const Other&",
      target  |-> IF lcat = "rvalue" THEN "std::move(static_cast<type&>(lhs))"
                                     ELSE "static_cast<type&>(lhs)",
      source  |-> IF rcat = "rvalue" THEN "std::move(static_cast<type&>(rhs))"
                                     ELSE "static_cast<const type&>(rhs)",
      returns |-> IF lcat = "rvalue" THEN "StrongTypedef&&" ELSE "StrongTypedef&" ]

\* Whether the body of the selected overload is well-formed for the unsigned
\* representation and a right operand of type Other (the wrapper itself,
\* "unsigned" or "long"): a built-in Op= needs a modifiable lvalue on its
\* left, and static_cast<type&>(rhs) needs an rhs that is the representation
\* or converts to a reference to it (the wrapper's explicit operator T&).
MAKE_OP_COMPOUND_body(lcat, rcat, Other) ==
    LET o == MAKE_OP_COMPOUND_overload(lcat, rcat)
    IN  /\ o.target = "static_cast<type&>(lhs)"
        /\ o.source = "static_cast<const type&>(rhs)" \/ Other \in {"W", "unsigned"}

\* unary_plus / unary_minus / complement: StrongTypedef(Op get(lhs))
unary_op(op, lhs) == strong_typedef_copy(ReprUnary(op, get(lhs)))

\* what a stream holds when a value is extracted from it: a number of the
\* representation, a minus sign and a number, nothing to read (the stream is
\* empty, holds only whitespace or has already failed), characters that are
\* no number, or a number too large for the representation
StreamInputs ==
    {[kind |-> "number", value |-> v] : v \in Repr}
    \cup {[kind |-> "negative", value |-> v] : v \in Repr \ {0}}
    \cup {[kind |-> k, value |-> 0] : k \in {"nothing", "garbage", "overflow"}}

\* input_operator::operator>>(in, val): in >> static_cast<type&>(val), the
\* extraction of the representation (unsigned). A number is stored, a negated
\* number is stored negated in the unsigned type; with nothing to read val
\* keeps its value; characters that are no number store zero, a number that
\* is too large stores the largest value; the last three set the failbit.
input_operator(s, self, token) ==
    [store |->
        CASE token.kind = "number"   -> [s EXCEPT ![self] = [value_ |-> token.value]]
          [] token.kind = "negative" ->
                [s EXCEPT ![self] = [value_ |-> (Modulus - token.value) % Modulus]]
          [] token.kind = "nothing"  -> s
          [] token.kind = "garbage"  -> [s EXCEPT ![self] = [value_ |-> 0]]
          [] token.kind = "overflow" -> [s EXCEPT ![self] = [value_ |-> Modulus - 1]],
     fail |-> token.kind \in {"nothing", "garbage", "overflow"}]

\* increment::operator++(): ++static_cast<type&>(*this); return *this
increment_pre(s, self) ==
    [s EXCEPT ![self] = [value_ |-> (get(s[self]) + 1) % Modulus]]

\* the postfix form copying its result after the step instead of before
increment_post_ReturnsNew(s, self) ==
    [store |-> increment_pre(s, self), result |-> increment_pre(s, self)[self]]

\* increment::operator++(int): result = *this; ++*this; return result
increment_post(s, self) ==
    [store |-> increment_pre(s, self), result |-> s[self]]

\* decrement::operator--()
decrement_pre(s, self) ==
    [s EXCEPT ![self] = [value_ |-> (get(s[self]) - 1) % Modulus]]

\* decrement::operator--(int)
decrement_post(s, self) ==
    [store |-> decrement_pre(s, self), result |-> s[self]]

(***************************************************************************)
(* SpecRun: wrapper instances of one wrapper type W over the unsigned      *)
(* representation, declared with integer_arithmetic, bitmask,              *)
(* bitshift<W, unsigned>, equality_comparison, relational_comparison,      *)
(* mixed_addition<W, unsigned> and mixed_subtraction<W, long>.             *)
(***************************************************************************)
NoRes == [op |-> "none", i |-> 0, j |-> 0, lcat |-> "lvalue", rcat |-> "lvalue",
          arg |-> 0, old |-> 0, old2 |-> 0, out |-> 0, outb |-> FALSE,
          ret |-> 0, ub |-> FALSE, lpass |-> "none", rpass |-> "none",
          from |-> "none", before |-> <<>>, wcat |-> "none", via |-> "none",
          refq |-> TRUE, ref |-> NoReference, compiles |-> TRUE,
          rtype |-> "none", retcat |-> "none", input |-> "none",
          fail |-> FALSE]

\* the variables of the other specifications, which this one leaves alone
RunOthers == <<it, ires, decl, expr, asrt>>

InitRun == /\ val = [i \in Inst |-> strong_typedef_default]
           /\ res = NoRes
           /\ it = <<>> /\ ires = <<>> /\ decl = <<>> /\ expr = <<>>
           /\ asrt = <<>>

\* W w(v) by copy or by move
Construct(i, v, how) ==
    /\ val' = [val EXCEPT ![i] = IF how = "copy" THEN strong_typedef_copy(v)
                                              ELSE strong_typedef_move(v)]
    /\ res' = [NoRes EXCEPT !.op = "ctor_" \o how, !.i = i, !.arg = v]

\* W w{} : the wrapper is constructed with no arguments
DefaultConstruct(i) ==
    /\ val' = [val EXCEPT ![i] = strong_typedef_default]
    /\ res' = [NoRes EXCEPT !.op = "ctor_default", !.i = i, !.old = get(val[i])]

\* get(w) / static_cast<T&>(w). from/arg remember the construction when the
\* wrapper read is the one the same expression constructed.
Get(i) ==
    LET fresh == res.op \in {"ctor_copy", "ctor_move", "ctor_default"} /\ res.i = i
    IN  /\ res' = [NoRes EXCEPT !.op = "get", !.i = i, !.out = get(val[i]),
                                !.from = IF fresh THEN res.op ELSE "none",
                                !.arg = IF fresh THEN res.arg ELSE 0]
        /\ UNCHANGED val

\* w_i Op w_j for an arithmetic or bitwise operator; division or modulo by
\* zero is undefined behaviour of the representation: any value may result.
Binary(op, i, lcat, j, rcat) ==
    LET defined == ~(op \in {"/", "%"} /\ get(val[j]) = 0)
        base == [NoRes EXCEPT !.op = op, !.i = i, !.j = j, !.lcat = lcat,
                              !.rcat = rcat, !.old = get(val[i]),
                              !.old2 = get(val[j]), !.before = val]
    IN  /\ IF defined
           THEN LET r == MAKE_OP(op, val[i], lcat, val[j], rcat)
                IN  res' = [base EXCEPT !.out = get(r.result),
                                        !.lpass = r.lpass, !.rpass = r.rpass]
           ELSE \E any \in Repr : res' = [base EXCEPT !.out = any, !.ub = TRUE]
        /\ UNCHANGED val

\* w_i Op w_j for a comparison operator
Compare(op, i, lcat, j, rcat) ==
    LET r == MAKE_OP_bool(op, val[i], lcat, val[j], rcat)
    IN  /\ res' = [NoRes EXCEPT !.op = op, !.i = i, !.j = j, !.lcat = lcat,
                                !.rcat = rcat, !.old = get(val[i]),
                                !.old2 = get(val[j]), !.outb = r.result,
                                !.before = val,
                                !.lpass = r.lpass, !.rpass = r.rpass]
        /\ UNCHANGED val

\* w_i + b and b + w_i through mixed_addition<W, unsigned>;
\* w_i << n and w_i >> n through bitshift<W, unsigned>
Mixed(op, i, b, side) ==
    /\ res' = [NoRes EXCEPT !.op = "mixed" \o op \o side, !.i = i, !.arg = b,
                            !.old = get(val[i]), !.before = val,
                            !.out = get(MAKE_OP_MIXED(op, val[i], b, side))]
    /\ UNCHANGED val

\* Op w_i
Unary(op, i) ==
    /\ res' = [NoRes EXCEPT !.op = "unary" \o op, !.i = i, !.old = get(val[i]),
                            !.before = val,
                            !.out = get(unary_op(op, val[i]))]
    /\ UNCHANGED val

\* w_i Op= w_j (i = j is the self-assignment w Op= w)
Compound(op, i, j) ==
    LET defined == ~(op \in {"/", "%"} /\ get(val[j]) = 0)
        base == [NoRes EXCEPT !.op = op \o "=", !.i = i, !.j = j, !.ret = i,
                              !.old = get(val[i]), !.old2 = get(val[j]),
                              !.before = val]
    IN  IF defined
        THEN /\ val' = MAKE_OP_COMPOUND(op, val, i, get(val[j]))
             /\ res' = [base EXCEPT !.out = get(val'[i])]
        ELSE \E any \in Repr :
                /\ val' = [val EXCEPT ![i] = [value_ |-> any]]
                /\ res' = [base EXCEPT !.out = any, !.ub = TRUE]

\* lhs Op= rhs in every form MAKE_OP_COMPOUND declares: lhs is w_i or
\* std::move(w_i); rhs is w_j (Other = W), an unsigned or a long of value b,
\* as an lvalue or an rvalue. An expression whose selected overload has an
\* ill-formed body does not compile and nothing runs.
CompoundForm(op, i, lcat, Other, j, b, rcat) ==
    LET rhsval  == IF Other = "W" THEN get(val[j]) ELSE b
        defined == ~(op \in {"/", "%"} /\ rhsval = 0)
        o       == MAKE_OP_COMPOUND_overload(lcat, rcat)
        base == [NoRes EXCEPT !.op = "form" \o op \o "=", !.i = i,
                              !.j = IF Other = "W" THEN j ELSE 0,
                              !.arg = rhsval, !.lcat = lcat, !.rcat = rcat,
                              !.rtype = Other, !.old = get(val[i]),
                              !.old2 = rhsval, !.before = val]
    IN  IF ~MAKE_OP_COMPOUND_body(lcat, rcat, Other)
        THEN /\ res' = [base EXCEPT !.op = "rejected" \o op \o "=",
                                    !.compiles = FALSE]
             /\ UNCHANGED val
        ELSE IF defined
        THEN /\ val' = MAKE_OP_COMPOUND(op, val, i, rhsval)
             /\ res' = [base EXCEPT !.ret = i, !.retcat = o.returns,
                                    !.out = get(val'[i])]
        ELSE \E any \in Repr :
                /\ val' = [val EXCEPT ![i] = [value_ |-> any]]
                /\ res' = [base EXCEPT !.ret = i, !.retcat = o.returns,
                                       !.out = any, !.ub = TRUE]

\* ++w_i, w_i++, --w_i, w_i--
Step(op, i) ==
    LET base == [NoRes EXCEPT !.op = op, !.i = i, !.old = get(val[i]),
                              !.before = val]
    IN  CASE op = "++pre"  -> /\ val' = increment_pre(val, i)
                              /\ res' = [base EXCEPT !.ret = i, !.out = get(val'[i])]
          [] op = "++post" -> /\ val' = increment_post(val, i).store
                              /\ res' = [base EXCEPT
                                           !.out = get(increment_post(val, i).result)]
          [] op = "--pre"  -> /\ val' = decrement_pre(val, i)
                              /\ res' = [base EXCEPT !.ret = i, !.out = get(val'[i])]
          [] op = "--post" -> /\ val' = decrement_post(val, i).store
                              /\ res' = [base EXCEPT
                                           !.out = get(decrement_post(val, i).result)]

\* in >> w_i with what the stream holds. The operator returns the stream
\* (return in >> static_cast<type&>(val)), not the wrapper: ret, the instance
\* a returned reference designates, stays 0, and there is no result value.
Extract(i, token) ==
    /\ val' = input_operator(val, i, token).store
    /\ res' = [NoRes EXCEPT !.op = ">>stream", !.i = i, !.arg = token.value,
                            !.input = token.kind,
                            !.fail = input_operator(val, i, token).fail,
                            !.old = get(val[i]), !.before = val,
                            !.retcat = "basic_istream&"]

\* swap(w_i, w_j)
Swap(i, j) ==
    /\ val' = swap(val, i, j)
    /\ res' = [NoRes EXCEPT !.op = "swap", !.i = i, !.j = j,
                            !.old = get(val[i]), !.old2 = get(val[j]),
                            !.before = val]

\* get(w_i) or static_cast<T cv ref>(w_i) on an expression of category wcat,
\* in a build with or without reference qualifiers: the reference obtained.
Access(i, wcat, via, refq) ==
    /\ res' = [NoRes EXCEPT !.op = "ref", !.i = i, !.wcat = wcat, !.via = via,
                            !.refq = refq, !.before = val,
                            !.ref = IF via = "get"
                                    THEN get_reference(i, wcat)
                                    ELSE operator_T_reference(refq, i, wcat)]
    /\ UNCHANGED val

\* an assignment of v through the reference just obtained, when it is a
\* reference to non-const; a temporary it may designate is lost
WriteThrough(v) ==
    /\ res.op = "ref" /\ res.ref.type \in {"T&", "T&&"}
    /\ val' = IF res.ref.obj \in Inst
              THEN [val EXCEPT ![res.ref.obj] = [value_ |-> v]]
              ELSE val
    /\ res' = [NoRes EXCEPT !.op = "write", !.i = res.i, !.arg = v,
                            !.old = get(val[res.i]), !.before = val,
                            !.ref = res.ref]

\* The end of the full-expression: its result is dropped.
Discard ==
    /\ res.op # "none"
    /\ res' = NoRes
    /\ UNCHANGED val

\* One full-expression at a time: an operator is applied when no result is
\* pending; a wrapper just constructed may be read in the same expression.
Idle == res.op = "none"

NextRun ==
    \/ /\ Idle /\ \E i \in Inst, v \in Repr, how \in {"copy", "move"} :
                    Construct(i, v, how)
       /\ UNCHANGED RunOthers
    \/ /\ Idle /\ \E i \in Inst : DefaultConstruct(i)
       /\ UNCHANGED RunOthers
    \/ /\ res.op \in {"none", "ctor_copy", "ctor_move", "ctor_default"}
       /\ \E i \in Inst : Get(i)
       /\ UNCHANGED RunOthers
    \/ /\ Idle /\ \E op \in ArithOps \cup BitOps, i, j \in Inst, lc, rc \in Categories :
                    Binary(op, i, lc, j, rc)
       /\ UNCHANGED RunOthers
    \/ /\ Idle /\ \E op \in EqOps \cup RelOps, i, j \in Inst, lc, rc \in Categories :
                    Compare(op, i, lc, j, rc)
       /\ UNCHANGED RunOthers
    \/ /\ Idle /\ \E i \in Inst, b \in Repr, side \in {"lhs", "rhs"} :
                    Mixed("+", i, b, side)
       /\ UNCHANGED RunOthers
    \/ /\ Idle /\ \E op \in ShiftOps, i \in Inst, n \in 0 .. (Width - 1) :
                    Mixed(op, i, n, "lhs")
       /\ UNCHANGED RunOthers
    \/ /\ Idle /\ \E op \in UnaryOps, i \in Inst : Unary(op, i)
       /\ UNCHANGED RunOthers
    \/ /\ Idle /\ \E op \in ArithOps \cup BitOps, i, j \in Inst : Compound(op, i, j)
       /\ UNCHANGED RunOthers
    \/ /\ Idle /\ \E op \in ArithOps \cup BitOps, i, j \in Inst,
                    lc, rc \in Categories : CompoundForm(op, i, lc, "W", j, 0, rc)
       /\ UNCHANGED RunOthers
    \/ /\ Idle /\ \E i \in Inst, lc, rc \in Categories, b \in Repr :
                    \/ CompoundForm("+", i, lc, "unsigned", 0, b, rc)
                    \/ CompoundForm("-", i, lc, "long", 0, b, rc)
       /\ UNCHANGED RunOthers
    \/ /\ Idle /\ \E op \in ShiftOps, i \in Inst, lc, rc \in Categories,
                    n \in 0 .. (Width - 1) :
                    CompoundForm(op, i, lc, "unsigned", 0, n, rc)
       /\ UNCHANGED RunOthers
    \/ /\ Idle /\ \E op \in {"++pre", "++post", "--pre", "--post"}, i \in Inst :
                    Step(op, i)
       /\ UNCHANGED RunOthers
    \/ /\ Idle /\ \E i \in Inst, token \in StreamInputs : Extract(i, token)
       /\ UNCHANGED RunOthers
    \/ /\ Idle /\ \E i, j \in Inst : Swap(i, j)
       /\ UNCHANGED RunOthers
    \/ /\ Idle /\ \E i \in Inst, wcat \in WrapperCategories,
                    via \in {"get", "conversion"}, refq \in BOOLEAN :
                    Access(i, wcat, via, refq)
       /\ UNCHANGED RunOthers
    \/ /\ \E v \in Repr : WriteThrough(v)
       /\ UNCHANGED RunOthers
    \/ /\ Discard
       /\ UNCHANGED RunOthers

SpecRun == InitRun /\ [][NextRun]_vars

(***************************************************************************)
(* SpecIter: a wrapper type It over a pointer into an array of ArrLen      *)
(* elements, declared with random_access_iterator<It, T>. A pointer is the *)
(* index it points at; ArrLen is the one-past-the-end pointer.             *)
(***************************************************************************)
ArrLen  == 4    \* elements of the array the iterators point into
NumIter == 2    \* iterator instances alive in SpecIter

IterInst  == 1 .. NumIter
Ptr       == 0 .. ArrLen
Distances == (0 - ArrLen) .. ArrLen
Array     == [k \in 0 .. (ArrLen - 1) |-> 10 + k]

\* Pointer arithmetic is defined while the result stays inside the array or
\* one past its end; dereferencing is defined on the elements only.
PtrValid(p) == p \in Ptr
PtrDeref(p) == p \in DOMAIN Array

\* increment::operator++() on the pointer representation: ++ptr
iter_increment(s, self) == [s EXCEPT ![self] = [value_ |-> get(s[self]) + 1]]

\* decrement::operator--() on the pointer representation: --ptr
iter_decrement(s, self) == [s EXCEPT ![self] = [value_ |-> get(s[self]) - 1]]

\* random_access_iterator::operator+=(const Distance& d)
iter_add_assign(s, self, d) == [s EXCEPT ![self] = [value_ |-> get(s[self]) + d]]

\* random_access_iterator::operator-=(const Distance& d)
iter_sub_assign(s, self, d) == [s EXCEPT ![self] = [value_ |-> get(s[self]) - d]]

\* friend operator+(const StrongTypedef& iter, const Distance& n)
iter_plus(iter, n) == strong_typedef_copy(operator_T(iter) + n)

\* friend operator+(const Distance& n, const StrongTypedef& iter): iter + n
n_plus_iter(n, iter) == iter_plus(iter, n)

\* friend operator-(const StrongTypedef& iter, const Distance& n)
iter_minus(iter, n) == strong_typedef_copy(operator_T(iter) - n)

\* the distance computed with its operands exchanged
iter_distance_Reversed(lhs, rhs) == operator_T(rhs) - operator_T(lhs)

\* friend Distance operator-(const StrongTypedef& lhs, const StrongTypedef& rhs)
iter_distance(lhs, rhs) == operator_T(lhs) - operator_T(rhs)

\* dereference::operator*(): *static_cast<type&>(*this)
dereference(self) == Array[operator_T(self)]

\* array_subscript::operator[](const Index& i): ptr[i], i.e. *(ptr + i)
array_subscript(self, i) == Array[operator_T(self) + i]

\* relational_comparison / equality_comparison on the pointers (MAKE_OP with
\* Result = bool)
iter_compare(op, lhs, rhs) ==
    CASE op = "==" -> get_underlying(lhs) = get_underlying(rhs)
      [] op = "!=" -> get_underlying(lhs) # get_underlying(rhs)
      [] op = "<"  -> get_underlying(lhs) < get_underlying(rhs)
      [] op = "<=" -> get_underlying(lhs) <= get_underlying(rhs)
      [] op = ">"  -> get_underlying(lhs) > get_underlying(rhs)
      [] op = ">=" -> get_underlying(lhs) >= get_underlying(rhs)

NoIRes == [op |-> "none", a |-> 0, b |-> 0, n |-> 0, old |-> 0, out |-> 0,
           outb |-> FALSE, elem |-> 0, ub |-> FALSE, before |-> <<>>]

IterOthers == <<val, res, decl, expr, asrt>>

InitIter == /\ it = [a \in IterInst |-> strong_typedef_copy(0)]
            /\ ires = NoIRes
            /\ val = <<>> /\ res = <<>> /\ decl = <<>> /\ expr = <<>>
            /\ asrt = <<>>

IterIdle == ires.op = "none"

\* It a(array + p)
ItConstruct(a, p) ==
    /\ it' = [it EXCEPT ![a] = strong_typedef_copy(p)]
    /\ ires' = [NoIRes EXCEPT !.op = "ctor", !.a = a, !.n = p]

\* a + n, n + a and a - n. A result outside the array is undefined
\* behaviour: any pointer may come out.
ItArith(op, a, n) ==
    LET r == CASE op = "it+n" -> iter_plus(it[a], n)
               [] op = "n+it" -> n_plus_iter(n, it[a])
               [] op = "it-n" -> iter_minus(it[a], n)
        base == [NoIRes EXCEPT !.op = op, !.a = a, !.n = n, !.old = get(it[a]),
                               !.before = it]
    IN  /\ IF PtrValid(get(r))
           THEN ires' = [base EXCEPT !.out = get(r),
                                     !.elem = IF PtrDeref(get(r))
                                              THEN dereference(r) ELSE 0]
           ELSE \E any \in Ptr : ires' = [base EXCEPT !.out = any, !.ub = TRUE]
        /\ UNCHANGED it

\* b - a
ItDistance(a, b) ==
    /\ ires' = [NoIRes EXCEPT !.op = "it-it", !.a = a, !.b = b, !.before = it,
                              !.out = iter_distance(it[a], it[b])]
    /\ UNCHANGED it

\* a Op b for the six comparison operators
ItCompare(op, a, b) ==
    /\ ires' = [NoIRes EXCEPT !.op = op, !.a = a, !.b = b, !.before = it,
                              !.outb = iter_compare(op, it[a], it[b])]
    /\ UNCHANGED it

\* ++a, --a, a += n, a -= n
ItMove(op, a, n) ==
    LET s == CASE op = "++" -> iter_increment(it, a)
               [] op = "--" -> iter_decrement(it, a)
               [] op = "+=" -> iter_add_assign(it, a, n)
               [] op = "-=" -> iter_sub_assign(it, a, n)
        base == [NoIRes EXCEPT !.op = op, !.a = a, !.n = n, !.old = get(it[a]),
                               !.before = it]
    IN  IF PtrValid(get(s[a]))
        THEN /\ it' = s
             /\ ires' = [base EXCEPT !.out = get(s[a])]
        ELSE \E any \in Ptr :
                /\ it' = [it EXCEPT ![a] = strong_typedef_copy(any)]
                /\ ires' = [base EXCEPT !.out = any, !.ub = TRUE]

\* *a and a[n]; reading outside the elements is undefined behaviour
ItRead(op, a, n) ==
    LET p == get(it[a]) + n
        base == [NoIRes EXCEPT !.op = op, !.a = a, !.n = n, !.old = get(it[a]),
                               !.before = it]
    IN  /\ IF PtrDeref(p)
           THEN ires' = [base EXCEPT !.elem = IF op = "*" THEN dereference(it[a])
                                               ELSE array_subscript(it[a], n)]
           ELSE \E any \in {Array[k] : k \in DOMAIN Array} :
                   ires' = [base EXCEPT !.elem = any, !.ub = TRUE]
        /\ UNCHANGED it

ItDiscard ==
    /\ ires.op # "none"
    /\ ires' = NoIRes
    /\ UNCHANGED it

NextIter ==
    \/ /\ IterIdle /\ \E a \in IterInst, p \in Ptr : ItConstruct(a, p)
       /\ UNCHANGED IterOthers
    \/ /\ IterIdle /\ \E op \in {"it+n", "n+it", "it-n"}, a \in IterInst, n \in Distances :
                        ItArith(op, a, n)
       /\ UNCHANGED IterOthers
    \/ /\ IterIdle /\ \E a, b \in IterInst : ItDistance(a, b)
       /\ UNCHANGED IterOthers
    \/ /\ IterIdle /\ \E op \in EqOps \cup RelOps, a, b \in IterInst : ItCompare(op, a, b)
       /\ UNCHANGED IterOthers
    \/ /\ IterIdle /\ \E op \in {"++", "--"}, a \in IterInst : ItMove(op, a, 1)
       /\ UNCHANGED IterOthers
    \/ /\ IterIdle /\ \E op \in {"+=", "-="}, a \in IterInst, n \in Distances :
                        ItMove(op, a, n)
       /\ UNCHANGED IterOthers
    \/ /\ IterIdle /\ \E a \in IterInst : ItRead("*", a, 0)
       /\ UNCHANGED IterOthers
    \/ /\ IterIdle /\ \E a \in IterInst, n \in Distances : ItRead("[]", a, n)
       /\ UNCHANGED IterOthers
    \/ /\ ItDiscard
       /\ UNCHANGED IterOthers

SpecIter == InitIter /\ [][NextIter]_vars

(***************************************************************************)
(* SpecLib: a program of either kind, one using the wrapper over the       *)
(* unsigned representation or one using the iterator wrapper. Every        *)
(* behaviour of SpecRun and every behaviour of SpecIter is one of SpecLib. *)
(***************************************************************************)
InitLib == InitRun \/ InitIter

NextLib ==
    \/ /\ DOMAIN val # {}
       /\ NextRun
    \/ /\ DOMAIN it # {}
       /\ NextIter

SpecLib == InitLib /\ [][NextLib]_vars

(***************************************************************************)
(* Wrapper declarations and the types of operands                          *)
(*                                                                         *)
(*   struct W  : strong_typedef<W,  T>, <capabilities> {inherited ctors};  *)
(*   struct W2 : strong_typedef<W2, T>, <capabilities> {inherited ctors};  *)
(*   struct D  : W {inherited ctors};          -- derived from W           *)
(*   struct ConvW   { operator W() const; };   -- converts to W implicitly *)
(*   struct ConvInt { operator int() const; }; -- converts to int          *)
(*                                                                         *)
(* T is int or a pointer ("ptr"). A capability is [name, arg]: arg is the  *)
(* second template argument of a mixed_* capability or of bitshift, the    *)
(* category of iterator, the Index of array_subscript, and "-" otherwise;  *)
(* the first template argument is always the wrapper the capability is     *)
(* attached to, and a T argument is the element type of the pointer.       *)
(***************************************************************************)
MaxCaps == 2    \* capabilities written in the base lists of one program

Wrappers     == {"W", "W2"}
OperandTypes == {"int", "W", "W2", "D", "ConvW", "ConvInt", "ostream", "istream"}
ReprTypes    == {"int", "ptr"}

Cap(name)         == [name |-> name, arg |-> "-"]
CapArg(name, arg) == [name |-> name, arg |-> arg]

\* the wrapper a type is, or derives from ("-" when it is no wrapper)
Owner(T) == CASE T \in Wrappers -> T [] T = "D" -> "W" [] OTHER -> "-"

\* std::is_same on decayed types
is_same(A, B) == A = B

\* std::is_base_of<Base, Derived>: a class (every operand type but int) is a
\* base of itself and of the classes derived from it
is_base_of(Base, Derived) ==
    \/ Base \in OperandTypes \ {"int"} /\ Base = Derived
    \/ Base = "W" /\ Derived = "D"

\* std::is_convertible<From, To>, implicit conversion. strong_typedef's value
\* constructors and conversion operators are explicit, so a wrapper converts
\* implicitly neither from nor to its representation.
is_convertible(From, To) ==
    \/ From = To /\ From \notin {"ostream", "istream"}
    \/ From = "D" /\ To = "W"
    \/ From = "ConvW" /\ To = "W"
    \/ From = "ConvInt" /\ To \in {"int", "ptrdiff_t", "size_t"}
    \/ From = "int" /\ To \in {"ptrdiff_t", "size_t"}

\* a class that is no capability, or a scalar type, as a parameter type;
\* a capability class as a parameter type is its record [name, arg]
Type(t) == [name |-> t, arg |-> "type"]

\* rank of the implicit conversion sequence from an lvalue of type From to
\* a reference to To: 0 identity, 1 conversion (derived to base, integral
\* conversion), 2 user-defined conversion
ConvRank(From, To) ==
    CASE Type(From) = To -> 0
      [] From \in {"ConvW", "ConvInt"} -> 2
      [] OTHER -> 1

\* detail::enable_if_convertible without the is_base_of test
enable_if_convertible_NoBaseTest(From, To) ==
    /\ ~is_same(From, To)
    /\ is_convertible(From, To)

\* detail::enable_if_convertible testing convertibility to the representation
enable_if_convertible_ToRepr(From, To) ==
    /\ ~is_same(From, To)
    /\ ~is_base_of(To, From)
    /\ is_convertible(From, "int")

\* detail::enable_if_convertible<From, To> (From already decayed)
enable_if_convertible(From, To) ==
    /\ ~is_same(From, To)
    /\ ~is_base_of(To, From)
    /\ is_convertible(From, To)

\* detail::enable_if_convertible_same<From, To>
enable_if_convertible_same(From, To) == is_convertible(From, To)

(***************************************************************************)
(* The capabilities: which overloads each generates, and the inheritance   *)
(* of the composites                                                       *)
(***************************************************************************)
\* TYPE_SAFE_DETAIL_MAKE_OP(Op, Name, Result): same-type and
\* convertible-operand overloads of Op for Name<StrongTypedef>
MAKE_OP_Names ==
    {"equality_comparison", "relational_comparison", "addition", "subtraction",
     "multiplication", "division", "modulo", "bitwise_or", "bitwise_xor",
     "bitwise_and"}

MAKE_OP_Table(name) ==
    CASE name = "equality_comparison"   -> {"==", "!="}
      [] name = "relational_comparison" -> {"<", "<=", ">", ">="}
      [] name = "addition"       -> {"+"}
      [] name = "subtraction"    -> {"-"}
      [] name = "multiplication" -> {"*"}
      [] name = "division"       -> {"/"}
      [] name = "modulo"         -> {"%"}
      [] name = "bitwise_or"     -> {"|"}
      [] name = "bitwise_xor"    -> {"^"}
      [] name = "bitwise_and"    -> {"&"}

\* equality_comparison generating the relational operators as well
MAKE_OP_Ops_EqOrders(name) ==
    IF name = "equality_comparison"
    THEN MAKE_OP_Table(name) \cup MAKE_OP_Table("relational_comparison")
    ELSE MAKE_OP_Table(name)

\* the operators TYPE_SAFE_DETAIL_MAKE_OP is invoked with for Name
MAKE_OP_Ops(name) == MAKE_OP_Table(name)

\* TYPE_SAFE_DETAIL_MAKE_OP_MIXED(Op, Name, Result): overloads of Op for
\* Name<StrongTypedef, OtherArg> against an operand convertible to OtherArg
MAKE_OP_MIXED_Names ==
    {"mixed_equality_comparison", "mixed_relational_comparison", "mixed_addition",
     "mixed_subtraction", "mixed_multiplication", "mixed_division", "mixed_modulo",
     "mixed_bitwise_or", "mixed_bitwise_xor", "mixed_bitwise_and", "bitshift"}

MAKE_OP_MIXED_Ops(name) ==
    CASE name = "mixed_equality_comparison"   -> {"==", "!="}
      [] name = "mixed_relational_comparison" -> {"<", "<=", ">", ">="}
      [] name = "mixed_addition"       -> {"+"}
      [] name = "mixed_subtraction"    -> {"-"}
      [] name = "mixed_multiplication" -> {"*"}
      [] name = "mixed_division"       -> {"/"}
      [] name = "mixed_modulo"         -> {"%"}
      [] name = "mixed_bitwise_or"     -> {"|"}
      [] name = "mixed_bitwise_xor"    -> {"^"}
      [] name = "mixed_bitwise_and"    -> {"&"}
      [] name = "bitshift"             -> {"<<", ">>"}

\* TYPE_SAFE_DETAIL_MAKE_OP_COMPOUND(Op=, Other): the friend compound
\* assignments declared inside a capability
MAKE_OP_COMPOUND_Names ==
    {"addition", "subtraction", "multiplication", "division", "modulo",
     "bitwise_or", "bitwise_xor", "bitwise_and",
     "mixed_addition", "mixed_subtraction", "mixed_multiplication",
     "mixed_division", "mixed_modulo", "mixed_bitwise_or", "mixed_bitwise_xor",
     "mixed_bitwise_and", "bitshift"}

MAKE_OP_COMPOUND_Ops(name) ==
    CASE name \in {"addition", "mixed_addition"}             -> {"+="}
      [] name \in {"subtraction", "mixed_subtraction"}       -> {"-="}
      [] name \in {"multiplication", "mixed_multiplication"} -> {"*="}
      [] name \in {"division", "mixed_division"}             -> {"/="}
      [] name \in {"modulo", "mixed_modulo"}                 -> {"%="}
      [] name \in {"bitwise_or", "mixed_bitwise_or"}         -> {"|="}
      [] name \in {"bitwise_xor", "mixed_bitwise_xor"}       -> {"^="}
      [] name \in {"bitwise_and", "mixed_bitwise_and"}       -> {"&="}
      [] name = "bitshift"                                   -> {"<<=", ">>="}

\* the unary operator templates
UnaryTemplate_Ops(name) ==
    CASE name = "unary_plus"  -> {"u+"}
      [] name = "unary_minus" -> {"u-"}
      [] name = "complement"  -> {"~"}
      [] OTHER -> {}

\* the member operators a capability declares; "+=" and "-=" of
\* random_access_iterator and "[]" take one argument
Member_Ops(name) ==
    CASE name = "increment"   -> {"++pre", "++post"}
      [] name = "decrement"   -> {"--pre", "--post"}
      [] name = "dereference" -> {"u*", "->"}
      [] name = "array_subscript" -> {"[]"}
      [] name = "random_access_iterator" -> {"+=", "-="}
      [] OTHER -> {}

BaseLists(c) ==
    CASE c.name = "integer_arithmetic" ->
            {Cap("unary_plus"), Cap("unary_minus"), Cap("addition"),
             Cap("subtraction"), Cap("multiplication"), Cap("division"),
             Cap("modulo"), Cap("increment"), Cap("decrement")}
      [] c.name = "floating_point_arithmetic" ->
            {Cap("unary_plus"), Cap("unary_minus"), Cap("addition"),
             Cap("subtraction"), Cap("multiplication"), Cap("division")}
      [] c.name = "bitmask" ->
            {Cap("complement"), Cap("bitwise_or"), Cap("bitwise_xor"),
             Cap("bitwise_and")}
      [] c.name = "iterator" -> {Cap("dereference"), Cap("increment")}
      [] c.name = "input_iterator" ->
            {CapArg("iterator", "input"), Cap("equality_comparison")}
      [] c.name = "output_iterator" -> {CapArg("iterator", "output")}
      [] c.name = "forward_iterator" -> {Cap("input_iterator")}
      [] c.name = "bidirectional_iterator" ->
            {Cap("forward_iterator"), Cap("decrement")}
      [] c.name = "random_access_iterator" ->
            {Cap("bidirectional_iterator"), CapArg("array_subscript", "ptrdiff_t"),
             Cap("relational_comparison")}
      [] OTHER -> {}

\* floating_point_arithmetic copied from integer_arithmetic with modulo,
\* increment and decrement left in
DirectBases_FloatLikeInteger(c) ==
    IF c.name = "floating_point_arithmetic"
    THEN BaseLists(Cap("integer_arithmetic"))
    ELSE BaseLists(c)

\* the base classes in the base list of a capability struct
DirectBases(c) == BaseLists(c)

\* only the direct bases of a capability, not the bases of its bases
BaseClosure_Shallow(c) == {c} \cup DirectBases(c)

RECURSIVE BaseClosure(_)
\* a capability and all its direct and indirect bases
BaseClosure(c) == {c} \cup UNION {BaseClosure(b) : b \in DirectBases(c)}

RECURSIVE PathCount(_, _)
RECURSIVE PathSum(_, _)
\* the number of base-class subobjects of class b inside an object of class c
PathCount(c, b) == IF c = b THEN 1 ELSE PathSum(DirectBases(c), b)

\* ... summed over the classes of a base list
PathSum(S, b) ==
    IF S = {} THEN 0
    ELSE LET x == CHOOSE y \in S : TRUE
         IN  PathCount(x, b) + PathSum(S \ {x}, b)

(***************************************************************************)
(* The member type aliases of the iterator capabilities                    *)
(***************************************************************************)
AliasNames == {"iterator_category", "value_type", "distance_type", "pointer", "reference"}

\* the using-declarations in the body of capability c, as a function from
\* the alias names it declares to the types they name
OwnAliases(c) ==
    CASE c.name = "iterator" ->
            [n \in AliasNames |->
                CASE n = "iterator_category" -> c.arg
                  [] n = "value_type"    -> "T"
                  [] n = "distance_type" -> "ptrdiff_t"
                  [] n = "pointer"       -> "T*"
                  [] n = "reference"     -> "T&"]
      [] c.name = "forward_iterator" ->
            [n \in {"iterator_category"} |-> "forward"]
      [] c.name = "bidirectional_iterator" ->
            [n \in {"iterator_category"} |-> "bidirectional"]
      [] c.name = "random_access_iterator" ->
            [n \in {"iterator_category"} |-> "random_access"]
      [] OTHER -> [n \in {} |-> "-"]

RECURSIVE AliasLookup(_, _)
\* member lookup of an alias in class c, as the set of declarations found,
\* each the class that declares it and the type it names: a declaration in
\* c hides those of its bases; otherwise the declarations found in the bases
AliasLookup(c, n) ==
    IF n \in DOMAIN OwnAliases(c) THEN {[class |-> c, type |-> OwnAliases(c)[n]]}
    ELSE UNION {AliasLookup(b, n) : b \in DirectBases(c)}

\* T::n for a wrapper type T, as the set of declarations the lookup finds:
\* the wrapper declares no alias of its own, so the lookup goes through its
\* base list. T::n names a type when the set has one declaration; it is
\* ill-formed when the set is empty and ambiguous when the bases declare n
\* in more than one class, even if every declaration names the same type.
TypeAlias(d, T, n) ==
    IF Owner(T) = "-" THEN {}
    ELSE UNION {AliasLookup(c, n) : c \in d.caps[Owner(T)]}

(***************************************************************************)
(* Overload resolution of an operator expression. d is a declaration       *)
(* [repr, caps, pedantic]: the representation type of W and W2, the        *)
(* capabilities in the base list of each, and whether the compiler keeps   *)
(* to the overload resolution of ISO C++ (clang, g++ -pedantic) or, like   *)
(* g++ by default, also resolves some calls that ISO C++ leaves ambiguous. *)
(***************************************************************************)
\* all the capability classes a type has as direct or indirect bases
BasesOfType(d, T) ==
    IF Owner(T) = "-" THEN {}
    ELSE UNION {BaseClosure(c) : c \in d.caps[Owner(T)]}

\* how many base-class subobjects of capability b an object of type T holds;
\* with more than one, a conversion to that base or a member found in it is
\* ambiguous
Subobjects(d, T, b) == IF Owner(T) = "-" THEN 0 ELSE PathSum(d.caps[Owner(T)], b)

CompareOps == EqOps \cup RelOps

\* the operators of the expressions L Op R and Op L
BinaryExprOps ==
    ArithOps \cup BitOps \cup ShiftOps \cup CompareOps
    \cup {op \o "=" : op \in ArithOps \cup BitOps \cup ShiftOps} \cup {"[]"}
UnaryExprOps == {"u+", "u-", "~", "++pre", "++post", "--pre", "--post", "u*", "->"}

\* the capabilities whose macro invocation names operator op
MAKE_OP_For == [op \in BinaryExprOps |-> {m \in MAKE_OP_Names : op \in MAKE_OP_Ops(m)}]
MAKE_OP_MIXED_For ==
    [op \in BinaryExprOps |-> {m \in MAKE_OP_MIXED_Names : op \in MAKE_OP_MIXED_Ops(m)}]
MAKE_OP_COMPOUND_For ==
    [op \in BinaryExprOps |->
        {m \in MAKE_OP_COMPOUND_Names : op \in MAKE_OP_COMPOUND_Ops(m)}]

\* the second template arguments of the bases named name among bases
ArgsIn(bases, name) == {c.arg : c \in {x \in bases : x.name = name}}

\* the second template argument deduced for Name<StrongTypedef, OtherArg>
\* from an operand of type T; deduction fails unless exactly one base fits
MixedArgs(d, T, name) == ArgsIn(BasesOfType(d, T), name)

\* a candidate function: the capability that declares it, the types its two
\* parameters refer to after deduction, whether it is a template, and
\* whether converting an operand to its parameter is ambiguous
Candidate(kind, cap, lparam, rparam, tmpl, bad) ==
    [kind |-> kind, cap |-> cap, lparam |-> lparam, rparam |-> rparam,
     tmpl |-> tmpl, bad |-> bad]

\* TYPE_SAFE_DETAIL_MAKE_OP, (Name<ST1>, Name<ST2>): a StrongTypedef deduced
\* for each operand on its own
SameTypeCandidates_AnyWrapper(d, op, L, R) ==
    LET bL == BasesOfType(d, L)
        bR == BasesOfType(d, R)
    IN  { Candidate("same", Cap(n), Cap(n), Cap(n), TRUE,
                    Subobjects(d, L, Cap(n)) > 1 \/ Subobjects(d, R, Cap(n)) > 1) :
            n \in { m \in MAKE_OP_For[op] :
                      /\ Cap(m) \in bL
                      /\ Cap(m) \in bR } }

\* TYPE_SAFE_DETAIL_MAKE_OP, (Name<ST>, Name<ST>): StrongTypedef is deduced
\* from both operands and must agree
SameTypeCandidates(d, op, L, R) ==
    LET bL == BasesOfType(d, L)
        bR == BasesOfType(d, R)
    IN  { Candidate("same", Cap(n), Cap(n), Cap(n), TRUE,
                    Subobjects(d, L, Cap(n)) > 1 \/ Subobjects(d, R, Cap(n)) > 1) :
            n \in { m \in MAKE_OP_For[op] :
                      /\ Owner(L) = Owner(R)
                      /\ Cap(m) \in bL
                      /\ Cap(m) \in bR } }

\* TYPE_SAFE_DETAIL_MAKE_OP, (Name<ST>, Other) and (Other, Name<ST>), guarded
\* by enable_if_convertible<Other&&, StrongTypedef>
ConvertibleCandidates(d, op, L, R) ==
    LET bL == BasesOfType(d, L)
        bR == BasesOfType(d, R)
    IN  { Candidate("conv_rhs", Cap(n), Cap(n), Type(R), TRUE, Subobjects(d, L, Cap(n)) > 1) :
            n \in { m \in MAKE_OP_For[op] :
                      /\ Cap(m) \in bL
                      /\ enable_if_convertible(R, Owner(L)) } }
        \cup
        { Candidate("conv_lhs", Cap(n), Type(L), Cap(n), TRUE, Subobjects(d, R, Cap(n)) > 1) :
            n \in { m \in MAKE_OP_For[op] :
                      /\ Cap(m) \in bR
                      /\ enable_if_convertible(L, Owner(R)) } }

\* TYPE_SAFE_DETAIL_MAKE_OP_MIXED, (Name<ST, OtherArg>, Other) and
\* (Other, Name<ST, OtherArg>), guarded by
\* enable_if_convertible_same<Other&&, OtherArg>
MixedCandidates(d, op, L, R) ==
    LET bL == BasesOfType(d, L)
        bR == BasesOfType(d, R)
    IN  { Candidate("mixed_rhs", CapArg(n, CHOOSE a \in ArgsIn(bL, n) : TRUE),
                    CapArg(n, CHOOSE a \in ArgsIn(bL, n) : TRUE), Type(R), TRUE,
                    Subobjects(d, L, CapArg(n, CHOOSE a \in ArgsIn(bL, n) : TRUE)) > 1) :
            n \in { m \in MAKE_OP_MIXED_For[op] :
                      /\ Cardinality(ArgsIn(bL, m)) = 1
                      /\ \A a \in ArgsIn(bL, m) : enable_if_convertible_same(R, a) } }
        \cup
        { Candidate("mixed_lhs", CapArg(n, CHOOSE a \in ArgsIn(bR, n) : TRUE),
                    Type(L), CapArg(n, CHOOSE a \in ArgsIn(bR, n) : TRUE), TRUE,
                    Subobjects(d, R, CapArg(n, CHOOSE a \in ArgsIn(bR, n) : TRUE)) > 1) :
            n \in { m \in MAKE_OP_MIXED_For[op] :
                      /\ Cardinality(ArgsIn(bR, m)) = 1
                      /\ \A a \in ArgsIn(bR, m) : enable_if_convertible_same(L, a) } }

\* the type of the right operand of a compound assignment declared in
\* capability c of wrapper st: TYPE_SAFE_DETAIL_MAKE_OP_COMPOUND(Op=, Other)
CompoundOther(c, st) == IF c.arg = "-" THEN st ELSE c.arg

\* TYPE_SAFE_DETAIL_MAKE_OP_COMPOUND: friends (StrongTypedef&, const Other&),
\* (StrongTypedef&&, const Other&), ... found through the base classes of
\* either operand; the operands convert implicitly to the parameter types
CompoundCandidates(d, op, L, R) ==
    IF MAKE_OP_COMPOUND_For[op] = {} THEN {}
    ELSE
    { Candidate("compound", x[1], Type(x[2]),
                Type(CompoundOther(x[1], x[2])), FALSE, FALSE) :
        x \in { y \in UNION { BasesOfType(d, T) \X {Owner(T)} : T \in {L, R} } :
                  /\ y[1].name \in MAKE_OP_COMPOUND_For[op]
                  /\ is_convertible(L, y[2])
                  /\ is_convertible(R, CompoundOther(y[1], y[2])) } }

\* random_access_iterator: the friends iter + n, n + iter, iter - n,
\* iter - iter, and the members += and -=
IteratorCandidates(d, op, L, R) ==
    IF op \notin {"+", "-", "+=", "-="} THEN {}
    ELSE
    LET rai == Cap("random_access_iterator")
        sts == {Owner(T) : T \in {X \in {L, R} : rai \in BasesOfType(d, X)}}
    IN  { Candidate("iter_n", rai, Type(st), Type("ptrdiff_t"), FALSE, FALSE) :
            st \in { x \in sts : /\ op \in {"+", "-"}
                                 /\ is_convertible(L, x)
                                 /\ is_convertible(R, "ptrdiff_t") } }
        \cup
        { Candidate("n_iter", rai, Type("ptrdiff_t"), Type(st), FALSE, FALSE) :
            st \in { x \in sts : /\ op = "+"
                                 /\ is_convertible(L, "ptrdiff_t")
                                 /\ is_convertible(R, x) } }
        \cup
        { Candidate("iter_iter", rai, Type(st), Type(st), FALSE, FALSE) :
            st \in { x \in sts : /\ op = "-"
                                 /\ is_convertible(L, x)
                                 /\ is_convertible(R, x) } }
        \cup
        { Candidate("member", rai, rai, Type("ptrdiff_t"), FALSE,
                    Subobjects(d, L, rai) > 1) :
            x \in { y \in {rai} : /\ op \in Member_Ops("random_access_iterator")
                                  /\ rai \in BasesOfType(d, L)
                                  /\ is_convertible(R, "ptrdiff_t") } }

\* array_subscript::operator[](const Index&)
SubscriptCandidates(d, op, L, R) ==
    IF op # "[]" THEN {}
    ELSE
    { Candidate("member", c, c, Type(c.arg), FALSE, Subobjects(d, L, c) > 1) :
        c \in { x \in BasesOfType(d, L) : /\ op \in Member_Ops(x.name)
                                         /\ x.name = "array_subscript"
                                         /\ is_convertible(R, x.arg) } }

\* input_operator / output_operator: friends (basic_istream&, StrongTypedef&)
\* and (basic_ostream&, const StrongTypedef&) found through the wrapper
StreamCandidates(d, op, L, R) ==
    IF L \notin {"ostream", "istream"} THEN {}
    ELSE
    { Candidate("stream", c, Type(L), Type(Owner(R)), TRUE, FALSE) :
        c \in { x \in BasesOfType(d, R) :
                  \/ op = "<<" /\ L = "ostream" /\ x.name = "output_operator"
                  \/ op = ">>" /\ L = "istream" /\ x.name = "input_operator" } }

\* the candidate functions of L Op R
Candidates(d, op, L, R) ==
    SameTypeCandidates(d, op, L, R) \cup ConvertibleCandidates(d, op, L, R)
    \cup MixedCandidates(d, op, L, R) \cup CompoundCandidates(d, op, L, R)
    \cup IteratorCandidates(d, op, L, R) \cup SubscriptCandidates(d, op, L, R)
    \cup StreamCandidates(d, op, L, R)

\* class A is derived from class B, directly or indirectly (A # B): D from
\* W and its capabilities, a wrapper from its capabilities, a capability
\* from the capabilities in its base lists
DerivedFrom(d, A, B) ==
    IF A.arg = "type"
    THEN \/ A.name = "D" /\ B = Type("W")
         \/ Owner(A.name) # "-" /\ B \in BasesOfType(d, A.name)
    ELSE B \in BaseClosure(A) \ {A}

\* converting an operand of type From to a reference to To1 is a better
\* conversion sequence than converting it to a reference to To2: a standard
\* conversion sequence is better than a user-defined one; two standard
\* sequences, or the second standard conversions of two sequences through
\* the one conversion function of From, are compared: an identity is better
\* than a conversion, and of two derived-to-base conversions the one to the
\* class derived from the other is better.
ConvBetter(d, From, To1, To2) ==
    LET user(To) == ConvRank(From, To) = 2
        \* what the conversion function of From returns
        converted == CASE From = "ConvW" -> "W" [] From = "ConvInt" -> "int"
                       [] OTHER -> From
        std(To)  == IF To \in {Type(From), Type(converted)} THEN 0 ELSE 1
    IN  \/ ~user(To1) /\ user(To2)
        \/ /\ user(To1) = user(To2)
           /\ \/ std(To1) < std(To2)
              \/ std(To1) = 1 /\ std(To2) = 1 /\ DerivedFrom(d, To1, To2)

\* c1 is a better viable function than c2 for operands L and R: no worse
\* in either argument and better in one, or equal and a non-template
\* against a template
Better(d, L, R, c1, c2) ==
    /\ ~ConvBetter(d, L, c2.lparam, c1.lparam)
    /\ ~ConvBetter(d, R, c2.rparam, c1.rparam)
    /\ \/ ConvBetter(d, L, c1.lparam, c2.lparam)
       \/ ConvBetter(d, R, c1.rparam, c2.rparam)
       \/ ~c1.tmpl /\ c2.tmpl

\* the best viable function, as a set: empty when there is no viable
\* function or the call is ambiguous. A compiler that is not pedantic
\* (g++ without -pedantic) also takes, of two candidates neither of which
\* is better, the one whose worst conversion has the better rank.
Selected(d, op, L, R) ==
    LET cs == Candidates(d, op, L, R)
        \* the worse of the ranks of the two conversions of candidate c
        worst(c) == IF ConvRank(L, c.lparam) > ConvRank(R, c.rparam)
                    THEN ConvRank(L, c.lparam) ELSE ConvRank(R, c.rparam)
        wins(c1, c2) ==
            \/ Better(d, L, R, c1, c2)
            \/ /\ ~d.pedantic
               /\ ~Better(d, L, R, c2, c1)
               /\ worst(c1) < worst(c2)
    IN  {c \in cs : \A c2 \in cs \ {c} : wins(c, c2)}

(***************************************************************************)
(* Whether the body of the selected overload compiles for the              *)
(* representation: the operator is forwarded to the representation, which  *)
(* must provide it (int: the arithmetic, bitwise, shift, comparison and    *)
(* stream operators; a pointer: comparison, pointer +- integer, pointer    *)
(* difference, *, -> and [], stream insertion).                            *)
(***************************************************************************)
\* Result(get(lhs) Op forward<Other>(rhs)) with Other a class that does not
\* convert to an integer: the inner expression is resolved against the
\* library again, and only a bool result can initialise Result
NestedBody(d, op, A, B) ==
    /\ op \in CompareOps
    /\ \E c \in Selected(d, op, A, B) :
          /\ ~c.bad
          /\ c.kind \in {"mixed_lhs", "mixed_rhs"}
          /\ d.repr = "int"

BodyCompiles(d, c, op, L, R) ==
    CASE c.kind \in {"same", "conv_rhs", "conv_lhs"} ->
            d.repr = "int" \/ op \in CompareOps
      [] c.kind = "mixed_rhs" ->
            IF is_convertible(R, "int")
            THEN d.repr = "int" \/ op \in {"+", "-"}
            ELSE NestedBody(d, op, d.repr, R)
      [] c.kind = "mixed_lhs" ->
            IF is_convertible(L, "int")
            THEN d.repr = "int" \/ op = "+"
            ELSE NestedBody(d, op, L, d.repr)
      \* a left operand that is only convertible to StrongTypedef is a
      \* temporary: the (StrongTypedef&&, ...) overload assigns to
      \* std::move(static_cast<type&>(lhs)), ill-formed for a built-in type
      [] c.kind = "compound" -> d.repr = "int" /\ ConvRank(L, c.lparam) <= 1
      [] c.kind \in {"iter_n", "n_iter", "iter_iter"} -> TRUE
      [] c.kind = "member" -> op # "[]" \/ d.repr = "ptr"
      [] c.kind = "stream" -> op = "<<" \/ d.repr = "int"

\* the name operator@ that an operator expression looks up
OperatorName(op) ==
    CASE op = "u+" -> "+"
      [] op = "u-" -> "-"
      [] op = "u*" -> "*"
      [] op \in {"++pre", "++post"} -> "++"
      [] op \in {"--pre", "--post"} -> "--"
      [] OTHER -> op

\* the capabilities among the bases of L that declare a member operator@
MemberProviders(d, op, L) ==
    {c \in BasesOfType(d, L) :
        OperatorName(op) \in {OperatorName(m) : m \in Member_Ops(c.name)}}

\* operator@ is looked up as a member of the class of the left operand: the
\* lookup is ill-formed when it finds the member in more than one base-class
\* subobject, whatever the arguments
MemberLookupAmbiguous(d, op, L) ==
    \/ Cardinality(MemberProviders(d, op, L)) > 1
    \/ \E c \in MemberProviders(d, op, L) : Subobjects(d, L, c) > 1

\* L Op R compiles
Compiles(d, op, L, R) ==
    /\ \E c \in Selected(d, op, L, R) : ~c.bad /\ BodyCompiles(d, c, op, L, R)
    /\ ~MemberLookupAmbiguous(d, op, L)

\* the capabilities among the bases of L that declare the unary operator op:
\* the templates of unary_plus, unary_minus and complement, and the members
\* of increment, decrement and dereference
UnaryProviders(d, op, L) ==
    {c \in BasesOfType(d, L) : op \in UnaryTemplate_Ops(c.name) \cup Member_Ops(c.name)}

\* the built-in unary operators of the language, which the library does
\* not declare: + - ~ on an int and on a class that converts to int through
\* its conversion function, ++ and -- on an int lvalue only
BuiltinUnary(op, L) ==
    \/ L = "int" /\ op \in {"u+", "u-", "~", "++pre", "++post", "--pre", "--post"}
    \/ L = "ConvInt" /\ op \in {"u+", "u-", "~"}

\* Op L compiles: through a capability of the wrapper L is or derives from,
\* or as a built-in operator (a wrapper converts to its representation
\* explicitly only, so no built-in operator applies to it)
UnaryCompiles(d, op, L) ==
    \/ /\ \E c \in UnaryProviders(d, op, L) :
             /\ Subobjects(d, L, c) = 1
             /\ IF d.repr = "int" THEN op \notin {"u*", "->"} ELSE op \notin {"u-", "~"}
       /\ ~MemberLookupAmbiguous(d, op, L)
    \/ BuiltinUnary(op, L)

(***************************************************************************)
(* SpecDecl / SpecCross: a program declares W and W2 by attaching          *)
(* capabilities, then an operator expression over two operand types is     *)
(* compiled against every operator.                                        *)
(***************************************************************************)
PlainCaps ==
    {Cap(n) : n \in MAKE_OP_Names \cup
        {"increment", "decrement", "unary_plus", "unary_minus", "complement",
         "dereference", "input_operator", "output_operator",
         "integer_arithmetic", "floating_point_arithmetic", "bitmask",
         "input_iterator", "output_iterator", "forward_iterator",
         "bidirectional_iterator", "random_access_iterator"}}
    \cup {CapArg("array_subscript", "size_t")}

MixedCaps(args) == {CapArg(n, a) : n \in MAKE_OP_MIXED_Names, a \in args}

OtherWrapper(w) == IF w = "W" THEN "W2" ELSE "W"

NoExpr == [lhs |-> "-", rhs |-> "-", usable |-> {}, convR |-> {}, convL |-> {},
           mixR |-> {}, mixL |-> {}, aliases |-> [n \in AliasNames |-> {}]]

DeclOthers == <<val, res, it, ires, asrt>>

InitDecl ==
    /\ decl \in {[repr |-> r, caps |-> [w \in Wrappers |-> {}], pedantic |-> p] :
                    r \in ReprTypes, p \in BOOLEAN}
    /\ expr = NoExpr
    /\ val = <<>> /\ res = <<>> /\ it = <<>> /\ ires = <<>>
    /\ asrt = <<>>

AttachedCount == Cardinality(decl.caps["W"]) + Cardinality(decl.caps["W2"])

\* add capability c to the base list of wrapper w
Attach(w, c) ==
    /\ expr = NoExpr
    /\ AttachedCount < MaxCaps
    /\ c \notin decl.caps[w]
    /\ decl' = [decl EXCEPT !.caps[w] = @ \cup {c}]
    /\ UNCHANGED expr

\* compile L Op R and Op L for every operator, and look up L::alias for
\* every alias name. usable: the operators whose expression compiles;
\* convR / convL: the binary operators with an enabled overload of
\* TYPE_SAFE_DETAIL_MAKE_OP taking the convertible operand on the right /
\* left; mixR / mixL: the same for TYPE_SAFE_DETAIL_MAKE_OP_MIXED
Compile(L, R) ==
    /\ expr = NoExpr
    /\ expr' = [lhs |-> L, rhs |-> R,
                usable |-> {op \in BinaryExprOps : Compiles(decl, op, L, R)}
                           \cup {op \in UnaryExprOps : UnaryCompiles(decl, op, L)},
                convR |-> {op \in BinaryExprOps :
                             \E c \in ConvertibleCandidates(decl, op, L, R) :
                                c.kind = "conv_rhs"},
                convL |-> {op \in BinaryExprOps :
                             \E c \in ConvertibleCandidates(decl, op, L, R) :
                                c.kind = "conv_lhs"},
                mixR |-> {op \in BinaryExprOps :
                            \E c \in MixedCandidates(decl, op, L, R) :
                               c.kind = "mixed_rhs"},
                mixL |-> {op \in BinaryExprOps :
                            \E c \in MixedCandidates(decl, op, L, R) :
                               c.kind = "mixed_lhs"},
                aliases |-> [n \in AliasNames |-> TypeAlias(decl, L, n)]]
    /\ UNCHANGED decl

\* go back to editing the program
Edit ==
    /\ expr # NoExpr
    /\ expr' = NoExpr
    /\ UNCHANGED decl

NextDecl ==
    \/ /\ \E c \in PlainCaps \cup MixedCaps({"int"}) : Attach("W", c)
       /\ UNCHANGED DeclOthers
    \/ /\ \E L, R \in OperandTypes : {L, R} \cap {"W", "D"} # {} /\ Compile(L, R)
       /\ UNCHANGED DeclOthers
    \/ /\ Edit
       /\ UNCHANGED DeclOthers

SpecDecl == InitDecl /\ [][NextDecl]_vars

NextCross ==
    \/ /\ \E w \in Wrappers :
             \E c \in PlainCaps \cup MixedCaps({"int", OtherWrapper(w)}) : Attach(w, c)
       /\ UNCHANGED DeclOthers
    \/ /\ \E L, R \in Wrappers : L # R /\ Compile(L, R)
       /\ UNCHANGED DeclOthers
    \/ /\ Edit
       /\ UNCHANGED DeclOthers

SpecCross == InitDecl /\ [][NextCross]_vars

(***************************************************************************)
(* SpecAssert: detail::constexpr_assert<Return>(condition, loc, message)   *)
(* called by a process, under each setting of the build's                  *)
(* TYPE_SAFE_ENABLE_ASSERTIONS. The handler and std::abort belong to       *)
(* debug_assert and the C++ runtime: they appear as the effects the call   *)
(* performs, in the order the comma expression sequences them.             *)
(***************************************************************************)
MaxCalls == 2    \* calls of constexpr_assert one process makes

\* how the build defines the macro before the header is included
Builds == {"undefined", "0", "1"}

\* #ifndef TYPE_SAFE_ENABLE_ASSERTIONS / #define TYPE_SAFE_ENABLE_ASSERTIONS 1
TYPE_SAFE_ENABLE_ASSERTIONS(build) ==
    IF build = "undefined" THEN 1 ELSE IF build = "1" THEN 1 ELSE 0

\* debug_assert::source_location
Locations == {[file_name |-> f, line_number |-> l] :
                 f \in {"strong_typedef.hpp", "main.cpp"}, l \in {1, 2}}
Messages  == {"precondition", "overflow"}

\* the types constexpr_assert is instantiated with
ReturnTypes == {"unsigned", "bool", "W"}

\* Return(): the value-initialised Return
Return(R) ==
    CASE R = "unsigned" -> [type |-> R, value |-> 0]
      [] R = "bool"     -> [type |-> R, value |-> FALSE]
      [] R = "W"        -> [type |-> R, value |-> get(strong_typedef_default)]

\* assert_handler{}.handle(loc, "", message)
handle(loc, expression, message) ==
    [do |-> "handle", loc |-> loc, expression |-> expression, message |-> message]

std_abort == [do |-> "abort"]

return(R) == [do |-> "return", value |-> Return(R)]

\* the failure branch without the call of std::abort
constexpr_assert_NoAbort(build, R, condition, loc, message) ==
    IF TYPE_SAFE_ENABLE_ASSERTIONS(build) # 0
    THEN IF condition THEN <<return(R)>>
                      ELSE <<handle(loc, "", message), return(R)>>
    ELSE <<return(R)>>

\* the failure branch calling std::abort before the handler
constexpr_assert_AbortFirst(build, R, condition, loc, message) ==
    IF TYPE_SAFE_ENABLE_ASSERTIONS(build) # 0
    THEN IF condition THEN <<return(R)>>
                      ELSE <<std_abort, handle(loc, "", message), return(R)>>
    ELSE <<return(R)>>

\* constexpr_assert: the effects of one call, in evaluation order.
\*   #if: condition ? Return() : (handle(loc, "", message), std::abort(), Return())
\*   #else: Return()
constexpr_assert(build, R, condition, loc, message) ==
    IF TYPE_SAFE_ENABLE_ASSERTIONS(build) # 0
    THEN IF condition THEN <<return(R)>>
                      ELSE <<handle(loc, "", message), std_abort, return(R)>>
    ELSE <<return(R)>>

NoCall == [R |-> "unsigned", condition |-> TRUE,
           loc |-> [file_name |-> "main.cpp", line_number |-> 1],
           message |-> "precondition"]

AssertOthers == <<val, res, it, ires, decl, expr>>

InitAssert ==
    /\ asrt \in {[build |-> b, alive |-> TRUE, calls |-> 0, pc |-> 0,
                  call |-> NoCall, prog |-> <<>>, log |-> <<>>,
                  returned |-> FALSE, ret |-> Return("unsigned")] : b \in Builds}
    /\ val = <<>> /\ res = <<>> /\ it = <<>> /\ ires = <<>>
    /\ decl = <<>> /\ expr = <<>>

\* the process calls constexpr_assert<R>(condition, loc, message)
AssertCall(R, condition, loc, message) ==
    /\ asrt.alive /\ asrt.pc = 0 /\ asrt.calls < MaxCalls
    /\ asrt' = [asrt EXCEPT
                  !.pc = 1, !.calls = @ + 1,
                  !.call = [R |-> R, condition |-> condition, loc |-> loc,
                            message |-> message],
                  !.prog = constexpr_assert(asrt.build, R, condition, loc, message),
                  !.log = <<>>, !.returned = FALSE]

\* the next effect of the call in progress
AssertNext == asrt.prog[asrt.pc]
AssertRunning == asrt.alive /\ asrt.pc > 0 /\ asrt.pc <= Len(asrt.prog)

\* the handler reports and returns to the comma expression
AssertHandle ==
    /\ AssertRunning /\ AssertNext.do = "handle"
    /\ asrt' = [asrt EXCEPT !.pc = @ + 1, !.log = Append(@, AssertNext)]

\* std::abort ends the process; nothing after it is evaluated
AssertAbort ==
    /\ AssertRunning /\ AssertNext.do = "abort"
    /\ asrt' = [asrt EXCEPT !.alive = FALSE, !.log = Append(@, AssertNext)]

\* the call returns Return() to its caller
AssertReturn ==
    /\ AssertRunning /\ AssertNext.do = "return"
    /\ asrt' = [asrt EXCEPT !.pc = 0, !.returned = TRUE,
                            !.ret = AssertNext.value,
                            !.log = Append(@, AssertNext)]

NextAssert ==
    \/ /\ \E R \in ReturnTypes, condition \in BOOLEAN, loc \in Locations,
            message \in Messages : AssertCall(R, condition, loc, message)
       /\ UNCHANGED AssertOthers
    \/ /\ AssertHandle
       /\ UNCHANGED AssertOthers
    \/ /\ AssertAbort
       /\ UNCHANGED AssertOthers
    \/ /\ AssertReturn
       /\ UNCHANGED AssertOthers

SpecAssert == InitAssert /\ [][NextAssert]_vars

(***************************************************************************)
(* Claims checked under SpecRun                                            *)
(***************************************************************************)

\* C1 (round trip): a wrapper explicitly constructed from v, by copy or by
\* move, holds v, and a get() of it with no operation in between returns v.
C1_RoundTrip ==
    /\ res.op \in {"ctor_copy", "ctor_move"} => get(val[res.i]) = res.arg
    /\ (res.op = "get" /\ res.from \in {"ctor_copy", "ctor_move"})
          => res.out = res.arg

C1_Witness ==
    /\ res.op = "get" /\ res.from = "ctor_move" /\ res.arg = Modulus - 1
    /\ res.out = Modulus - 1

\* Division and remainder stated by their defining relation rather than by
\* the operator: q = a / b and r = a % b iff a = q * b + r with 0 <= r < b.
IsQuotient(a, b, q)  == q * b <= a /\ a < (q + 1) * b
IsRemainder(a, b, r) == r \in 0 .. (b - 1) /\ \E q \in 0 .. a : a = q * b + r

\* What the unsigned Width-bit representation gives for a Op b, b # 0 for
\* / and %.
C3_Expected(op, a, b, out) ==
    CASE op = "+" -> \E k \in {0, 1} : a + b = out + k * Modulus
      [] op = "-" -> \E k \in {0, 1} : a - b = out - k * Modulus
      [] op = "*" -> \E k \in 0 .. Modulus : a * b = out + k * Modulus
      [] op = "/" -> IsQuotient(a, b, out)
      [] op = "%" -> IsRemainder(a, b, out)

\* C3 (forwarding equivalence of integer_arithmetic): get(W(a) Op W(b)) is
\* a Op b of the representation for + - * / %, modulo 2^Width and with b # 0
\* for / and %; unary + and - give +a and -a; ++ and -- leave the previous
\* value plus or minus one; w Op= W(b) leaves the previous value Op b.
C3_Forwarding ==
    /\ res.out \in Repr
    /\ (res.op \in ArithOps /\ ~res.ub)
          => C3_Expected(res.op, get(val[res.i]), get(val[res.j]), res.out)
    /\ res.op = "unary+" => res.out = get(val[res.i])
    /\ res.op = "unary-" => (res.out + get(val[res.i])) % Modulus = 0
    /\ res.op \in {"++pre", "++post"}
          => get(val[res.i]) = (IF res.old = Modulus - 1 THEN 0 ELSE res.old + 1)
    /\ res.op \in {"--pre", "--post"}
          => get(val[res.i]) = (IF res.old = 0 THEN Modulus - 1 ELSE res.old - 1)
    /\ \A op \in ArithOps :
          (res.op = op \o "=" /\ ~res.ub)
             => /\ C3_Expected(op, res.old, res.old2, get(val[res.i]))
                /\ res.out = get(val[res.i])

\* an overflowing product: 3 * 3 wraps modulo 2^Width
C3_Witness ==
    /\ res.op = "*" /\ res.i # res.j /\ res.lcat = "rvalue"
    /\ get(val[res.i]) = 3 /\ get(val[res.j]) = 3
    /\ 9 > Modulus /\ res.out = 9 % Modulus

\* C10 (swap): after swap(a, b) a holds b's old value and b holds a's;
\* swapping twice restores both; swap(a, a) changes nothing; no other
\* instance changes; and a later write to one of them leaves the other alone.
C10_SwapState ==
    res.op = "swap" =>
        LET a == res.i
            b == res.j
        IN  /\ get(val[a]) = res.old2
            /\ get(val[b]) = res.old
            /\ swap(val, a, b) = res.before
            /\ a = b => swap(val, a, b) = val
            /\ \A k \in Inst \ {a, b} : swap(val, a, b)[k] = val[k]
            /\ a # b => \A v \in Repr :
                  /\ MAKE_OP_COMPOUND("+", val, a, v)[b] = val[b]
                  /\ MAKE_OP_COMPOUND("+", val, b, v)[a] = val[a]
                  /\ increment_pre(val, b)[a] = val[a]

\* The Swap step against the instances as they were before it: the two
\* operands exchanged, everything else (and everything, when i = j) as it was.
C10_SwapFrame ==
    res.op = "swap" =>
        /\ res.i = res.j => val = res.before
        /\ \A k \in Inst \ {res.i, res.j} : val[k] = res.before[k]
        /\ val[res.i] = res.before[res.j]
        /\ val[res.j] = res.before[res.i]

\* C10: swap exchanges the two values, is an involution, is the identity on
\* swap(a, a), touches no other instance and leaves the operands independent.
C10_Swap == C10_SwapState /\ C10_SwapFrame

C10_Witness ==
    /\ res.op = "swap" /\ res.i # res.j /\ res.old # res.old2
    /\ get(val[res.i]) = res.old2 /\ get(val[res.j]) = res.old

(***************************************************************************)
(* Claims checked under SpecIter                                           *)
(***************************************************************************)
RECURSIVE Successor(_, _)
\* the iterator reached from iter by n applications of ++
Successor(iter, n) ==
    IF n = 0 THEN iter
    ELSE Successor(iter_increment(<<iter>>, 1)[1], n - 1)

\* C7 (iterator contract): while everything stays in range, a + n is the
\* iterator n increments after a, *(a + n) and a[n] are that element,
\* n + a = a + n, (a + n) - n = a, b - a counts the increments from a to b
\* (negative when b precedes a), and a < b exactly when b - a > 0.
C7_IteratorContract ==
    /\ (ires.op \in {"it+n", "n+it"} /\ ires.n >= 0 /\ ~ires.ub)
          => /\ ires.out = get(Successor(it[ires.a], ires.n))
             /\ PtrDeref(ires.out) => ires.elem = dereference(Successor(it[ires.a], ires.n))
    /\ (ires.op = "[]" /\ ires.n >= 0 /\ ~ires.ub)
          => ires.elem = dereference(Successor(it[ires.a], ires.n))
    /\ \A a \in IterInst, n \in Distances :
          PtrValid(get(it[a]) + n)
             => /\ n_plus_iter(n, it[a]) = iter_plus(it[a], n)
                /\ iter_minus(iter_plus(it[a], n), n) = it[a]
    /\ ires.op = "it-it"
          => /\ ires.out >= 0 => Successor(it[ires.b], ires.out) = it[ires.a]
             /\ ires.out < 0 => Successor(it[ires.a], 0 - ires.out) = it[ires.b]
    /\ \A a, b \in IterInst :
          iter_compare("<", it[a], it[b]) <=> iter_distance(it[b], it[a]) > 0

\* 2 + a from the second element reads the fourth element
C7_Witness ==
    /\ ires.op = "n+it" /\ ires.n = 2 /\ ires.old = 1 /\ ires.elem = Array[3]

(***************************************************************************)
(* Claims checked under SpecDecl                                           *)
(***************************************************************************)
Compiled == expr # NoExpr

\* the operators that compile in an expression on a wrapper: the binary
\* operators, one operand being W or D, and the unary operators when the
\* left operand, which they are applied to, is W or D
OnWrapper ==
    IF Owner(expr.lhs) = "-" THEN expr.usable \cap BinaryExprOps ELSE expr.usable

IncOps   == {"++pre", "++post"}
DecOps   == {"--pre", "--post"}
DerefOps == {"u*", "->"}

\* the operators the specification lists for each capability
Provides(c) ==
    CASE c.name \in {"equality_comparison", "mixed_equality_comparison"} -> {"==", "!="}
      [] c.name \in {"relational_comparison", "mixed_relational_comparison"} ->
            {"<", "<=", ">", ">="}
      [] c.name \in {"addition", "mixed_addition"}             -> {"+", "+="}
      [] c.name \in {"subtraction", "mixed_subtraction"}       -> {"-", "-="}
      [] c.name \in {"multiplication", "mixed_multiplication"} -> {"*", "*="}
      [] c.name \in {"division", "mixed_division"}             -> {"/", "/="}
      [] c.name \in {"modulo", "mixed_modulo"}                 -> {"%", "%="}
      [] c.name \in {"bitwise_or", "mixed_bitwise_or"}         -> {"|", "|="}
      [] c.name \in {"bitwise_xor", "mixed_bitwise_xor"}       -> {"^", "^="}
      [] c.name \in {"bitwise_and", "mixed_bitwise_and"}       -> {"&", "&="}
      [] c.name = "bitshift"        -> {"<<", ">>", "<<=", ">>="}
      [] c.name = "increment"       -> IncOps
      [] c.name = "decrement"       -> DecOps
      [] c.name = "unary_plus"      -> {"u+"}
      [] c.name = "unary_minus"     -> {"u-"}
      [] c.name = "complement"      -> {"~"}
      [] c.name = "dereference"     -> DerefOps
      [] c.name = "array_subscript" -> {"[]"}
      [] c.name = "input_operator"  -> {">>"}
      [] c.name = "output_operator" -> {"<<"}
      [] c.name = "integer_arithmetic" ->
            {"u+", "u-", "+", "-", "*", "/", "%", "+=", "-=", "*=", "/=", "%="}
            \cup IncOps \cup DecOps
      [] c.name = "floating_point_arithmetic" ->
            {"u+", "u-", "+", "-", "*", "/", "+=", "-=", "*=", "/="}
      [] c.name = "bitmask" -> {"~", "|", "^", "&", "|=", "^=", "&="}
      [] c.name = "output_iterator" -> DerefOps \cup IncOps
      [] c.name \in {"input_iterator", "forward_iterator"} ->
            DerefOps \cup IncOps \cup {"==", "!="}
      [] c.name = "bidirectional_iterator" ->
            DerefOps \cup IncOps \cup {"==", "!="} \cup DecOps
      [] c.name = "random_access_iterator" ->
            DerefOps \cup IncOps \cup {"==", "!="} \cup DecOps
            \cup {"[]", "<", "<=", ">", ">=", "+", "-", "+=", "-="}

\* C4: capability gating. Whatever capabilities are attached to W, an
\* operator expression over W compiles only if one of the attached
\* capabilities generates the operator; with equality_comparison alone,
\* == and != between two W compile and no other operator does.
C4_CapabilityGating ==
    Compiled =>
        /\ OnWrapper \subseteq UNION {Provides(c) : c \in decl.caps["W"]}
        /\ (decl.caps["W"] = {Cap("equality_comparison")}
              /\ expr.lhs = "W" /\ expr.rhs = "W")
           => expr.usable = {"==", "!="}

C4_Witness ==
    /\ decl.caps["W"] = {Cap("equality_comparison")}
    /\ expr.lhs = "W" /\ expr.rhs = "W"
    /\ "==" \in expr.usable
    /\ "<" \notin expr.usable

\* C5 as stated: with integer_arithmetic as the only capability of W over
\* int, W(a) + b and b + W(a) are accepted.
C5_AcceptedWithoutMixed ==
    (/\ Compiled
     /\ decl.repr = "int"
     /\ decl.caps["W"] = {Cap("integer_arithmetic")}
     /\ <<expr.lhs, expr.rhs>> \in {<<"W", "int">>, <<"int", "W">>})
    => "+" \in expr.usable

\* C5, amended: with integer_arithmetic as the only capability of W over
\* int, W(a) + b and b + W(a) are rejected (and so is W(a) += b); once
\* mixed_addition<W, int> is attached as well, both are accepted and both
\* give W(a + b).
C5_MixedArithmetic ==
    (/\ Compiled
     /\ decl.repr = "int"
     /\ <<expr.lhs, expr.rhs>> \in {<<"W", "int">>, <<"int", "W">>})
    => /\ decl.caps["W"] = {Cap("integer_arithmetic")}
          => expr.usable \cap {"+", "+="} = {}
       /\ decl.caps["W"] = {Cap("integer_arithmetic"), CapArg("mixed_addition", "int")}
          => /\ "+" \in expr.usable
             /\ \A a, b \in Repr :
                   /\ MAKE_OP_MIXED("+", strong_typedef_copy(a), b, "lhs")
                        = strong_typedef_copy((a + b) % Modulus)
                   /\ MAKE_OP_MIXED("+", strong_typedef_copy(a), b, "rhs")
                        = strong_typedef_copy((a + b) % Modulus)

C5_Witness ==
    /\ decl.repr = "int"
    /\ decl.caps["W"] = {Cap("integer_arithmetic")}
    /\ expr.lhs = "int" /\ expr.rhs = "W"
    /\ "+" \notin expr.usable

\* the binary operators of the plain primitive capabilities among the bases of W
C6_PlainOps ==
    UNION {Provides(c) \cap (ArithOps \cup BitOps \cup CompareOps) :
             c \in {b \in BasesOfType(decl, "W") : b.name \in MAKE_OP_Names}}

\* the binary operators of the mixed_* capabilities and bitshift among the
\* bases of W whose second template argument is arg
C6_MixedOps(arg) ==
    UNION {Provides(c) \cap (ArithOps \cup BitOps \cup ShiftOps \cup CompareOps) :
             c \in {b \in BasesOfType(decl, "W") :
                      b.name \in MAKE_OP_MIXED_Names /\ b.arg = arg}}

\* the operand types that convert implicitly to W, to int
C6_ConvertsToW   == {"W", "D", "ConvW"}
C6_ConvertsToInt == {"int", "ConvInt"}

\* C6 as stated: the (S, Other) and (Other, S) overloads of a primitive
\* capability of S are enabled exactly when Other is not S, not derived from
\* S, and implicitly convertible to the representation of S.
C6_GuardOnRepresentation ==
    (Compiled /\ decl.repr = "int") =>
        /\ expr.lhs = "W" =>
              expr.convR = IF expr.rhs \notin {"W", "D"} /\ expr.rhs \in C6_ConvertsToInt
                           THEN C6_PlainOps ELSE {}
        /\ expr.rhs = "W" =>
              expr.convL = IF expr.lhs \notin {"W", "D"} /\ expr.lhs \in C6_ConvertsToInt
                           THEN C6_PlainOps ELSE {}

\* C6, amended: the (S, Other) and (Other, S) overloads of a plain primitive
\* capability of S are enabled exactly when Other is not S, not derived from
\* S, and implicitly convertible to S itself; those of a mixed capability
\* over <S, int> exactly when Other is implicitly convertible to int.
C6_MixedOverloadGuard ==
    Compiled =>
        /\ expr.lhs = "W" =>
              /\ expr.convR = IF expr.rhs \notin {"W", "D"} /\ expr.rhs \in C6_ConvertsToW
                              THEN C6_PlainOps ELSE {}
              /\ expr.mixR = IF expr.rhs \in C6_ConvertsToInt
                             THEN C6_MixedOps("int") ELSE {}
        /\ expr.rhs = "W" =>
              /\ expr.convL = IF expr.lhs \notin {"W", "D"} /\ expr.lhs \in C6_ConvertsToW
                              THEN C6_PlainOps ELSE {}
              /\ expr.mixL = IF expr.lhs \in C6_ConvertsToInt
                             THEN C6_MixedOps("int") ELSE {}

C6_Witness ==
    /\ Cap("addition") \in decl.caps["W"]
    /\ expr.lhs = "ConvW" /\ expr.rhs = "W"
    /\ "+" \in expr.convL
    /\ "+" \in expr.usable

IteratorComposites ==
    {"input_iterator", "output_iterator", "forward_iterator",
     "bidirectional_iterator", "random_access_iterator"}

\* the category tag the specification gives each composite
C8_Tag(x) ==
    CASE x = "input_iterator"  -> "input"
      [] x = "output_iterator" -> "output"
      [] x = "forward_iterator" -> "forward"
      [] x = "bidirectional_iterator" -> "bidirectional"
      [] x = "random_access_iterator" -> "random_access"

\* the primitive capabilities the specification gives each composite
C8_Primitives(x) ==
    {"dereference", "increment"}
    \cup (IF x # "output_iterator" THEN {"equality_comparison"} ELSE {})
    \cup (IF x \in {"bidirectional_iterator", "random_access_iterator"}
          THEN {"decrement"} ELSE {})
    \cup (IF x = "random_access_iterator"
          THEN {"array_subscript", "relational_comparison"} ELSE {})

\* the operators of composite x that compile for operands L, R, one of them
\* an iterator W over a pointer and the other W or an integer
C8_Expected(x, L, R) ==
    (IF L = "W" THEN Provides(Cap(x)) \cap (DerefOps \cup IncOps \cup DecOps) ELSE {})
    \cup (IF L = "W" /\ R = "W"
          THEN Provides(Cap(x)) \cap (CompareOps \cup {"-"}) ELSE {})
    \cup (IF L = "W" /\ R = "int"
          THEN Provides(Cap(x)) \cap {"[]", "+", "-", "+=", "-="} ELSE {})
    \cup (IF L = "int" /\ R = "W" THEN Provides(Cap(x)) \cap {"+"} ELSE {})

\* C8: the iterator ladder. A wrapper over a pointer with one iterator
\* composite attached has exactly the operators listed for that level, the
\* level's own category tag, the value type, distance type, pointer and
\* reference aliases, exactly the level's primitive capabilities among its
\* bases, and each base through one path only.
C8_IteratorLadder ==
    \A x \in IteratorComposites :
        (/\ Compiled
         /\ decl.repr = "ptr"
         /\ decl.caps["W"] = {Cap(x)}
         /\ {expr.lhs, expr.rhs} \subseteq {"W", "int"})
        => /\ OnWrapper = C8_Expected(x, expr.lhs, expr.rhs)
           /\ expr.lhs = "W" =>
                 /\ {a.type : a \in expr.aliases["iterator_category"]} = {C8_Tag(x)}
                 /\ \A n \in AliasNames : Cardinality(expr.aliases[n]) = 1
           /\ {b.name : b \in BaseClosure(Cap(x))} \ (IteratorComposites \cup {"iterator"})
                 = C8_Primitives(x)
           /\ \A b \in BaseClosure(Cap(x)) : PathCount(Cap(x), b) = 1

C8_Witness ==
    /\ decl.repr = "ptr"
    /\ decl.caps["W"] = {Cap("random_access_iterator")}
    /\ expr.lhs = "W" /\ expr.rhs = "int"
    /\ {"+=", "[]", "--pre", "u*"} \subseteq expr.usable
    /\ {a.type : a \in expr.aliases["iterator_category"]} = {"random_access"}
    /\ Cardinality(expr.aliases["iterator_category"]) = 1

ArithmeticComposites == {"integer_arithmetic", "floating_point_arithmetic", "bitmask"}

\* C9: the arithmetic and bitmask composites are exact unions. With one of
\* them as the only capability of W over int, exactly the operators listed
\* for it compile between two W (unary +, -, binary + - * / %, ++, -- and
\* the compound forms for integer_arithmetic; the same without %, %=, ++,
\* -- for floating_point_arithmetic; ~ | ^ & |= ^= &= for bitmask), and no
\* comparison operator compiles for any operands.
C9_ExactUnions ==
    \A x \in ArithmeticComposites :
        (Compiled /\ decl.repr = "int" /\ decl.caps["W"] = {Cap(x)})
        => /\ OnWrapper \subseteq Provides(Cap(x))
           /\ (expr.lhs = "W" /\ expr.rhs = "W") => expr.usable = Provides(Cap(x))
           /\ expr.usable \cap (CompareOps \cup ShiftOps \cup {"<<=", ">>="}) = {}

C9_Witness ==
    /\ decl.repr = "int"
    /\ decl.caps["W"] = {Cap("floating_point_arithmetic")}
    /\ expr.lhs = "W" /\ expr.rhs = "W"
    /\ {"u-", "/", "/="} \subseteq expr.usable
    /\ expr.usable \cap ({"%", "%="} \cup IncOps \cup DecOps) = {}

(***************************************************************************)
(* Claims checked under SpecCross                                          *)
(***************************************************************************)
\* a capability of wrapper w names the other wrapper as a template argument
NamesOtherWrapper(w) == \E c \in BasesOfType(decl, w) : c.arg = OtherWrapper(w)

\* C2 as stated: whatever capabilities W and W2 have, no binary operator
\* accepts a W together with a W2.
C2_NeverMixes ==
    Compiled => expr.usable \cap BinaryExprOps = {}

\* C2, amended: no binary operator accepts a W together with a W2 unless a
\* capability of one of them names the other wrapper as its Other argument
\* (mixed_addition<W, W2> makes w += w2 compile).
C2_NominalDistinctness ==
    (Compiled /\ ~NamesOtherWrapper("W") /\ ~NamesOtherWrapper("W2"))
    => expr.usable \cap BinaryExprOps = {}

C2_Witness ==
    /\ decl.repr = "int"
    /\ decl.caps["W"] = {Cap("addition")}
    /\ decl.caps["W2"] = {Cap("addition")}
    /\ expr.lhs = "W" /\ expr.rhs = "W2"
    /\ expr.usable = {}

(***************************************************************************)
(* Claims checked under SpecAssert                                         *)
(***************************************************************************)
\* the build has assertions enabled
AssertionsEnabled == asrt.build \in {"undefined", "1"}

\* a call has been made and this is what is known of the latest one
AssertCalled == asrt.calls > 0

\* C11 (assertion outcome): with assertions enabled a call with a false
\* condition never returns and the process ends in std::abort; in every other
\* case (assertions disabled with either condition, or enabled with a true
\* condition) the process is not terminated and the call returns Return().
C11_AssertOutcome ==
    AssertCalled =>
        IF AssertionsEnabled /\ ~asrt.call.condition
        THEN /\ ~asrt.returned
             /\ asrt.pc > 0
             /\ asrt.alive => asrt.pc <= Len(asrt.prog)
                              /\ AssertNext.do \in {"handle", "abort"}
        ELSE /\ asrt.alive
             /\ asrt.pc = 0 <=> asrt.returned
             /\ asrt.returned => asrt.ret = Return(asrt.call.R)
             /\ ~asrt.returned => AssertNext.do = "return"

\* a process that got Return() back from one call and was terminated by the next
C11_Witness ==
    /\ ~asrt.alive /\ asrt.calls = 2
    /\ asrt.ret = Return("W") /\ asrt.ret.value = 0

\* C18 (assertion ordering): with assertions enabled and a false condition the
\* effects of the call are exactly one handle(loc, "", message) and then
\* std::abort, the process is terminated only after the handler ran, and the
\* caller gets no value; with a true condition or with assertions disabled
\* neither the handler nor std::abort is ever reached.
C18_AssertOrdering ==
    AssertCalled =>
        LET h == handle(asrt.call.loc, "", asrt.call.message)
        IN  IF AssertionsEnabled /\ ~asrt.call.condition
            THEN /\ ~asrt.returned
                 /\ \/ asrt.log = <<>>
                    \/ asrt.log = <<h>>
                    \/ asrt.log = <<h, std_abort>>
                 /\ ~asrt.alive <=> Len(asrt.log) = 2
            ELSE /\ asrt.alive
                 /\ \A k \in 1 .. Len(asrt.log) : asrt.log[k].do = "return"

\* a terminated process whose handler ran once, with the caller's arguments
C18_Witness ==
    /\ ~asrt.alive
    /\ Len(asrt.log) = 2 /\ asrt.log[1].do = "handle" /\ asrt.log[2].do = "abort"
    /\ asrt.log[1].loc = [file_name |-> "strong_typedef.hpp", line_number |-> 2]
    /\ asrt.log[1].message = "overflow"
    /\ asrt.log[1] = handle(asrt.call.loc, "", asrt.call.message)

(***************************************************************************)
(* Accessor, construction, frame and value-category claims under SpecRun   *)
(***************************************************************************)
\* what a write through a reference to non-const of w_i and every later
\* extraction from w_i show
C12_WriteObserved ==
    res.op = "write" =>
        /\ res.ref.obj = res.i
        /\ get(val[res.i]) = res.arg
        /\ \A k \in Inst \ {res.i} : val[k] = res.before[k]
        /\ \A wcat \in WrapperCategories :
              /\ get(val[get_reference(res.i, wcat).obj]) = res.arg
              /\ get(val[operator_T_reference(TRUE, res.i, wcat).obj]) = res.arg

\* extraction leaves every stored value as it was
C12_ExtractionPure ==
    /\ res.op = "ref" => val = res.before
    /\ res.op = "get" => res.out = get(val[res.i])

\* C12 as stated: in all four value categories get() and the explicit
\* conversion operator give a reference of the matching category to the
\* wrapper's own stored value, in every build.
C12_AllFourAlways ==
    /\ res.op = "ref" => /\ res.ref.obj = res.i
                         /\ res.ref.type = ReferenceType(res.wcat)
    /\ C12_WriteObserved
    /\ C12_ExtractionPure

\* C12 (accessors alias the owned value): get() gives a reference of the
\* matching category to the wrapper's own stored value in all four value
\* categories; the explicit conversion operator does so for mutable and const
\* wrappers in every build and for movable and const movable wrappers exactly
\* when the build has reference qualifiers, the cast being rejected otherwise;
\* a write through a reference to non-const is seen by every later extraction
\* from that wrapper and by no other, and extraction changes nothing.
C12_AccessorsAlias ==
    /\ res.op = "ref" =>
          LET rejected == /\ res.via = "conversion" /\ ~res.refq
                          /\ res.wcat \in {"movable", "const movable"}
          IN  /\ rejected <=> res.ref.type = "ill-formed"
              /\ ~rejected => /\ res.ref.obj = res.i
                              /\ res.ref.type = ReferenceType(res.wcat)
                              /\ get(val[res.ref.obj]) = get(res.before[res.i])
    /\ C12_WriteObserved
    /\ C12_ExtractionPure

\* a write through the rvalue reference of the conversion operator that
\* changed the wrapper's value, other wrappers holding something else
C12_Witness ==
    /\ res.op = "write" /\ res.ref.type = "T&&" /\ res.ref.obj = res.i
    /\ res.old # res.arg /\ get(val[res.i]) = res.arg
    /\ \E k \in Inst \ {res.i} : get(val[k]) # res.arg

\* C13 (default construction): a wrapper constructed with no arguments holds
\* the value-initialised representation, zero for the unsigned representation
\* (the value that is its own negation and leaves every v unchanged under +),
\* and extracting from it yields that value, whatever the object held before.
C13_DefaultConstruction ==
    LET zero(x) == /\ x = 0
                   /\ ReprUnary("-", x) = x
                   /\ \A v \in Repr : ReprBinary("+", x, v) = v
    IN  /\ res.op = "ctor_default" => zero(get(val[res.i]))
        /\ (res.op = "get" /\ res.from = "ctor_default") => zero(res.out)

\* a get() of a wrapper just default-constructed among non-zero wrappers
C13_Witness ==
    /\ res.op = "get" /\ res.from = "ctor_default" /\ res.out = 0
    /\ \A k \in Inst \ {res.i} : get(val[k]) = Modulus - 1

(***************************************************************************)
(* Claims checked under SpecLib                                            *)
(***************************************************************************)
\* the operations of SpecRun and SpecIter that only produce a result
NonMutatingRun ==
    ArithOps \cup BitOps \cup EqOps \cup RelOps
    \cup {"mixed+lhs", "mixed+rhs", "mixed<<lhs", "mixed>>lhs"}
    \cup {"unary" \o op : op \in UnaryOps}
NonMutatingIter == {"it+n", "n+it", "it-n", "it-it"} \cup EqOps \cup RelOps

\* the operations that change their target
MutatingRun ==
    {op \o "=" : op \in ArithOps \cup BitOps}
    \cup {"form" \o op \o "=" : op \in ArithOps \cup BitOps \cup ShiftOps}
    \cup {"++pre", "++post", "--pre", "--post", ">>stream"}

\* expressions that did not compile: nothing ran
RejectedRun == {"rejected" \o op \o "=" : op \in ArithOps \cup BitOps \cup ShiftOps}
MutatingIter == {"++", "--", "+=", "-="}

\* the operation names the frame is stated over are those the actions record
C14_Covered ==
    /\ DOMAIN val # {} =>
          res.op \in NonMutatingRun \cup MutatingRun \cup RejectedRun
                     \cup {"none", "swap", "get", "ref", "write", "ctor_copy",
                           "ctor_move", "ctor_default"}
    /\ DOMAIN it # {} =>
          ires.op \in NonMutatingIter \cup MutatingIter
                      \cup {"none", "ctor", "*", "[]"}

\* C14 (frame): the binary arithmetic and bitwise operators, the shifts, the
\* unary operators, the comparisons and iter + n, n + iter, iter - n,
\* iter - iter leave every stored value as it was; compound assignment,
\* ++/--, iterator += / -=, stream extraction and swap change nothing but
\* their target (swap: its two operands).
C14_Frame ==
    /\ C14_Covered
    /\ DOMAIN val # {} =>
          /\ res.op \in NonMutatingRun \cup RejectedRun => val = res.before
          /\ res.op \in MutatingRun =>
                \A k \in Inst \ {res.i} : val[k] = res.before[k]
          /\ res.op = "swap" =>
                \A k \in Inst \ {res.i, res.j} : val[k] = res.before[k]
    /\ DOMAIN it # {} =>
          /\ ires.op \in NonMutatingIter => it = ires.before
          /\ ires.op \in MutatingIter =>
                \A k \in IterInst \ {ires.a} : it[k] = ires.before[k]

\* a compound assignment that changed its target next to an untouched wrapper
\* holding another value
C14_Witness ==
    /\ DOMAIN val # {}
    /\ res.op = "*=" /\ res.i # res.j
    /\ get(val[res.i]) # res.old /\ get(val[res.j]) = res.old2
    /\ val[res.j] = res.before[res.j]

\* a compound assignment expression was written
CompoundWritten == res.op \in {k \o op \o "=" : k \in {"form", "rejected"},
                                               op \in ArithOps \cup BitOps \cup ShiftOps}

\* the operator of the compound assignment recorded in res
CompoundOp == CHOOSE op \in ArithOps \cup BitOps \cup ShiftOps :
                 res.op \in {"form" \o op \o "=", "rejected" \o op \o "="}

\* C15 (compound assignment): every form of lhs Op= rhs (addressable or
\* temporary lhs; same-type or convertible rhs, as an lvalue or an rvalue)
\* compiles, applies the representation's Op= to lhs's stored value with the
\* rhs value, returns the same lhs object (StrongTypedef& for an addressable
\* lhs, StrongTypedef&& for a temporary one), leaves a distinct rhs wrapper
\* unchanged and leaves lhs holding what lhs Op rhs produces.
C15_CompoundAssignment ==
    CompoundWritten =>
        /\ res.compiles
        /\ res.ret = res.i
        /\ res.retcat = (IF res.lcat = "rvalue" THEN "StrongTypedef&&"
                                                ELSE "StrongTypedef&")
        /\ \A k \in Inst \ {res.i} : val[k] = res.before[k]
        /\ ~res.ub =>
              /\ get(val[res.i]) = ReprBinary(CompoundOp, res.old, res.old2)
              /\ res.rtype = "W" =>
                    get(val[res.i]) =
                        get(MAKE_OP(CompoundOp, res.before[res.i], res.lcat,
                                    res.before[res.j], res.rcat).result)
              /\ res.rtype # "W" =>
                    get(val[res.i]) =
                        get(MAKE_OP_MIXED(CompoundOp, res.before[res.i],
                                          res.arg, "lhs"))

\* C16 (same-type overload value categories): in each of the four operand
\* combinations of an operator generated by TYPE_SAFE_DETAIL_MAKE_OP every
\* operand's representation reaches the representation's operator in that
\* operand's own category (an rvalue wrapper as an rvalue, an lvalue wrapper
\* as a const lvalue), on the left as on the right, and the result is the
\* representation's operator applied to the two stored values.
C16_OperandCategories ==
    LET passed(cat) == IF cat = "rvalue" THEN "rvalue" ELSE "const lvalue"
        same_type == res.op \in ArithOps \cup BitOps \cup EqOps \cup RelOps
    IN  (same_type /\ ~res.ub) =>
            /\ res.lpass = passed(res.lcat)
            /\ res.rpass = passed(res.rcat)
            /\ res.op \in ArithOps \cup BitOps =>
                  res.out = ReprBinary(res.op, res.old, res.old2)
            /\ res.op \in EqOps \cup RelOps =>
                  res.outb = ReprCompare(res.op, res.old, res.old2)

\* v stepped once upwards / downwards in the unsigned representation
C17_Up(v)   == IF v = Modulus - 1 THEN 0 ELSE v + 1
C17_Down(v) == IF v = 0 THEN Modulus - 1 ELSE v - 1

\* C17 (pre/post increment and decrement): ++w and --w step the stored value
\* exactly once and return w itself; w++ and w-- return a separate wrapper
\* holding the old value and leave w holding what ++w / --w would have left
\* (one step, not none and not two); ++ followed by -- restores the value.
C17_IncrementDecrement ==
    /\ res.op = "++pre"  => /\ res.ret = res.i
                            /\ get(val[res.i]) = C17_Up(res.old)
                            /\ res.out = get(val[res.i])
    /\ res.op = "--pre"  => /\ res.ret = res.i
                            /\ get(val[res.i]) = C17_Down(res.old)
                            /\ res.out = get(val[res.i])
    /\ res.op = "++post" => /\ res.ret = 0
                            /\ res.out = res.old
                            /\ get(val[res.i]) = C17_Up(res.old)
                            /\ val = increment_pre(res.before, res.i)
    /\ res.op = "--post" => /\ res.ret = 0
                            /\ res.out = res.old
                            /\ get(val[res.i]) = C17_Down(res.old)
                            /\ val = decrement_pre(res.before, res.i)
    /\ res.op \in {"++pre", "++post", "--pre", "--post"} =>
          /\ get(val[res.i]) # res.old
          /\ Modulus > 2 => /\ get(val[res.i]) # C17_Up(C17_Up(res.old))
                            /\ get(val[res.i]) # C17_Down(C17_Down(res.old))
          /\ \A k \in Inst \ {res.i} : val[k] = res.before[k]
    /\ res.op \in {"++pre", "++post"} =>
          /\ decrement_pre(val, res.i) = res.before
          /\ decrement_post(val, res.i).store = res.before
    /\ res.op \in {"--pre", "--post"} =>
          /\ increment_pre(val, res.i) = res.before
          /\ increment_post(val, res.i).store = res.before

\* w++ on a wrapper holding the largest value: the copy returned holds it and
\* w wraps to zero
C17_Witness ==
    /\ res.op = "++post" /\ res.old = Modulus - 1
    /\ res.out = Modulus - 1 /\ get(val[res.i]) = 0
    /\ \E k \in Inst \ {res.i} : get(val[k]) # 0

====
